---- MODULE Spec2Model ----
(***************************************************************************)
(* real-estate-scrapers: the crawl (RealEstateSpider), the item pipelines  *)
(* (DuplicatesPipeline, PostgresPipeline), the database handler and the    *)
(* list-page adapters, as state machines.                                  *)
(*                                                                         *)
(* Python values: an Optional value is a sequence, <<>> for None and <<v>> *)
(* for a value v; a dict is a record whose DOMAIN is its key set, so that  *)
(* a missing key is visible; floats are integers.  URLs are sequences of   *)
(* tokens, so that "marker in url" and f"{url}?page={n}" are computed.     *)
(***************************************************************************)
EXTENDS Integers, Sequences, FiniteSets, Bags, TLC

----------------------------------------------------------------------------
(* Bounds *)

\* detail pages of the crawled site
NumDetails == 3
\* distinct detail-page URLs among the records handed to the item pipelines
NumUrls == 2
\* list pages the home page can link to
NumLists == 1
\* pagination URLs a list page can yield
MaxPages == 2
\* detail pages whose extraction raises DropItem
MaxBad == 1
\* largest result count a list page announces
MaxResults == 101
\* number of process lifetimes (crawl runs) against the same storage
MaxRuns == 2
\* copies of one record handed to the item pipelines during the first run
MaxItems == 101
\* arbitrary records (any shape, any URL) handed to the item pipelines, over all runs
MaxAny == 2

\* result pages of the Habita API
NumApiPages == 2

\* longest text node given to the format checker
MaxTextLen == 5

----------------------------------------------------------------------------
(* Values *)

None == <<>>

Some(v) == <<v>>

\* Python truthiness of an Optional[float]: None and 0.0 are falsy
TruthyNum(o) == o # None /\ o[1] # 0

\* Python truthiness of an Optional[str]: None and "" are falsy
TruthyStr(o) == o # None /\ o[1] # ""

Urls == 1..NumUrls

\* the crawled site is realo.be
Domain == "realo.be"

HomeUrl == <<"https://www.realo.be/en/cities?search=1">>

\* f"https://www.{self.domain()}{href}" for the href of a city
ListUrl(l) == <<"https://www.realo.be", "/en/search/", ToString(l)>>

\* f"https://www.{domain}{href}" for the data-href of a listing
DetailUrl(d) == <<"https://www.realo.be", "/en/", ToString(d)>>

\* the number a URL token was formatted from
IdOf(tok) == CHOOSE d \in 0..(NumDetails + NumUrls + NumLists + MaxPages) : ToString(d) = tok

\* "marker in url"
Contains(url, marker) == \E i \in DOMAIN url : url[i] = marker

Lists == 1..NumLists

----------------------------------------------------------------------------
(* models/models.py, models.py, items.py, models/db_models.py *)

\* the page object a detail adapter exposes to to_item (field extraction
\* results); only the URL varies in the pipeline runs
DetailPage(d) ==
  [url |-> DetailUrl(d), country |-> "BEL", city |-> "Gent", zip_code |-> "9000",
   listing_type |-> "sale", area |-> Some(50),
   price_amount |-> Some(1000), price_unit |-> "EUR",
   heating_demand |-> None,
   energy_efficiency |-> Some([energy_class |-> Some("A"), value |-> None]),
   epc_pdf_url |-> None, epc_issued_date |-> None,
   date_of_building |-> None, object_type |-> "House"]

\* Price(amount=..., unit=...)
Price(amount, unit) == [amount |-> amount, unit |-> unit]

\* RealEstatePage.to_item: the RealEstate dict of models/models.py
\* (energy data nested under epc_data)
to_item(page, now) ==
  [location |-> [country |-> page.country, city |-> page.city,
                 zip_code |-> page.zip_code],
   listing_type |-> page.listing_type,
   area |-> page.area,
   price |-> IF TruthyNum(page.price_amount)
             THEN Some(Price(page.price_amount[1], page.price_unit))
             ELSE None,
   epc_data |-> [heating_demand |-> page.heating_demand,
                 energy_efficiency |-> page.energy_efficiency,
                 epc_pdf_url |-> page.epc_pdf_url,
                 epc_issued_date |-> page.epc_issued_date],
   item_metadata |-> [date_built |-> page.date_of_building,
                      type |-> page.object_type],
   scrape_metadata |-> [url |-> page.url, timestamp |-> now]]

\* the RealEstate dict of the top-level models.py (energy data at top level),
\* the shape RealEstateDBItem.from_dict reads
FlatRealEstate(page, now) ==
  [location |-> [country |-> page.country, city |-> page.city,
                 zip_code |-> page.zip_code],
   listing_type |-> page.listing_type,
   area |-> page.area,
   price |-> IF TruthyNum(page.price_amount)
             THEN Some(Price(page.price_amount[1], page.price_unit))
             ELSE None,
   heating_demand |-> page.heating_demand,
   energy_efficiency |-> page.energy_efficiency,
   scrape_metadata |-> [url |-> page.url, timestamp |-> now]]

\* dct[k] and dct[k]["amount"] or None, for the float member of an optional dict
AndNumOrNone(o, k) == IF o # None /\ TruthyNum(Some(o[1][k])) THEN Some(o[1][k]) ELSE None

\* dct[k] and dct[k]["unit"] or None, for the str member of an optional dict
AndStrOrNone(o, k) == IF o # None /\ TruthyStr(Some(o[1][k])) THEN Some(o[1][k]) ELSE None

\* the same for a member that is itself Optional (EnergyData.energy_class, .value)
AndOptNumOrNone(o, k) == IF o # None /\ TruthyNum(o[1][k]) THEN o[1][k] ELSE None

AndOptStrOrNone(o, k) == IF o # None /\ TruthyStr(o[1][k]) THEN o[1][k] ELSE None

Raised(exc) == [raised |-> TRUE, exc |-> exc]

Returned(v) == [raised |-> FALSE, value |-> v]

\* RealEstateDBItem.from_dict; keyword arguments are evaluated in order, the
\* first missing key raises KeyError
from_dict(dct) ==
  IF "heating_demand" \notin DOMAIN dct \/ "energy_efficiency" \notin DOMAIN dct
  THEN Raised("KeyError")
  ELSE Returned(
    [location_country |-> dct.location.country,
     location_city |-> dct.location.city,
     location_zip_code |-> dct.location.zip_code,
     listing_type |-> dct.listing_type,
     area |-> dct.area,
     price_amount |-> AndNumOrNone(dct.price, "amount"),
     price_unit |-> AndStrOrNone(dct.price, "unit"),
     heating_demand_energy_class |-> AndOptStrOrNone(dct.heating_demand, "energy_class"),
     heating_demand_value |-> AndOptNumOrNone(dct.heating_demand, "value"),
     energy_efficiency_energy_class |-> AndOptStrOrNone(dct.energy_efficiency, "energy_class"),
     energy_efficiency_value |-> AndOptNumOrNone(dct.energy_efficiency, "value"),
     scrape_metadata_url |-> dct.scrape_metadata.url,
     scrape_metadata_timestamp |-> dct.scrape_metadata.timestamp])

\* PostgresPipeline.batch_size
batch_size == 100

\* realo_be: items_per_page
items_per_page == 48

\* green_acres_gr: items_per_page
green_acres_items_per_page == 24

\* habita_com: results per API page
habita_items_per_page == 100

\* the text of a result counter: "2.039 results"; numeric is FALSE when the
\* first word is not a number
ResultsText(n) == [number |-> n, numeric |-> TRUE]

MalformedText == [number |-> 0, numeric |-> FALSE]

\* ITEM_PIPELINES of settings.py: pipeline -> priority; process_item runs in
\* ascending priority
ITEM_PIPELINES == [DuplicatesPipeline |-> 300, PostgresPipeline |-> 400]

----------------------------------------------------------------------------
(* State *)

VARIABLES
  pc,              \* process phase: "idle", "crawling", "closing", "done"
  run,             \* number of process lifetimes started
  opened,          \* pipelines whose open_spider hook has run
  closed,          \* pipelines whose close_spider hook has run
  storage,         \* table real_estate_items: bag of committed rows
  session_new,     \* PostgresPipeline.session: rows added and not yet committed
  num_items,       \* PostgresPipeline.num_items
  item_urls_seen,  \* DuplicatesPipeline.item_urls_seen
  num_url_queries, \* storage queries for scraped URLs in this process
  storage_at_start,\* history: storage when the process started
  offered,         \* history: bag of records given to DuplicatesPipeline.process_item
  handed,          \* history: bag of records given to PostgresPipeline.process_item
  dropped,         \* history: bag of records DuplicatesPipeline.process_item dropped
  last,            \* history: the last call of DuplicatesPipeline.process_item
  commits,         \* history: commits of this process that wrote at least one row
  close_log,       \* history: session events of the close_spider hooks, in order
  web,             \* the crawled site: what each page's markup holds
  only_domain,     \* RealEstateSpider.only_domain
  requests,        \* requests the engine has scheduled and not yet answered
  issued,          \* history: every request a callback yielded in this run
  handled,         \* history: responses handed to a callback in this run
  invoked,         \* history: adapter extractions the callbacks invoked
  paginated_call,  \* a call of a list adapter's real_estate_list_urls_paginated
  fed,             \* copies of the bulk record given to the item pipelines
  any_fed,         \* arbitrary records given to the item pipelines
  reg_status,      \* import of concrete_items: "loading", "loaded" or "failed"
  loaded_modules,  \* adapter modules the registration loop has gone through
  overrides,       \* concrete_items._scrapy_poet_overrides: domain -> triplet
  start_url_dict,  \* concrete_items._start_url_dict: home page class -> entry URLs
  reg_log,         \* history: the registrations made, in order
  probe,           \* the last call made on the loaded registry and its result
  environ,         \* os.environ: the environment variables that are set
  config_file,     \* the config_path given to get_db_config and the file under it
  raw_page,        \* the response a detail page object is built on
  text,            \* a text node of a page, as a sequence of characters
  has_table,       \* the table of RealEstateDBItem exists in the database
  item_map         \* habita_com.item_map: item id -> the API's data of the item

pipe_vars == <<storage, has_table, session_new, num_items, item_urls_seen, num_url_queries>>

hist_vars == <<storage_at_start, offered, handed, dropped, last, commits, close_log, fed, any_fed>>

life_vars == <<pc, run, opened, closed>>

registry_vars == <<reg_status, loaded_modules, overrides, start_url_dict, reg_log, probe>>

input_vars == <<environ, config_file, raw_page, text, item_map>>

spider_vars == <<web, only_domain, requests, issued, handled, invoked, paginated_call, registry_vars,
                 input_vars>>

vars == <<life_vars, pipe_vars, hist_vars, spider_vars>>

Pipelines == DOMAIN ITEM_PIPELINES

\* the URLs of the rows of a table
ScrapedUrls(table) == {row.scrape_metadata_url : row \in BagToSet(table)}

\* number of rows of a table with the given URL
RECURSIVE SumCopies(_, _)
SumCopies(bag, rows) ==
  IF rows = {} THEN 0
  ELSE LET r == CHOOSE x \in rows : TRUE
       IN CopiesIn(r, bag) + SumCopies(bag, rows \ {r})

RowsWithUrl(table, url) ==
  SumCopies(table, {row \in BagToSet(table) : row.scrape_metadata_url = url})

\* a table whose rows were written from records of the given detail pages
TableOf(ds) == SetToBag({from_dict(FlatRealEstate(DetailPage(d), 0)).value : d \in ds})

NoCall == [outcome |-> "none"]

\* a site without pages
EmptyWeb == [lists |-> {}, total_results |-> None, det_list |-> 0,
             det_page |-> [k \in 1..MaxPages |-> 0], bad |-> 0]

\* the sites a crawl can meet: which list pages the home page links to, how
\* many results the counter of a list page announces, how many detail links a
\* list page and each of its result pages hold (a result page holds none or
\* all of the site's detail pages; the list page shows its first result page),
\* and how many detail pages lack a required field
Webs ==
  {EmptyWeb} \cup
  {w \in [lists : {Lists},
          total_results : {None} \cup {Some(ResultsText(items_per_page * j)) : j \in 0..(MaxPages - 1)},
          det_list : 0..NumDetails,
          det_page : [1..MaxPages -> {0, NumDetails}], bad : 0..MaxBad] :
     /\ \A k \in 1..MaxPages :
          (w.total_results = None \/ k > (w.total_results[1].number \div items_per_page) + 1)
             => w.det_page[k] = 0
     /\ w.total_results # None => w.det_list = w.det_page[1]}

----------------------------------------------------------------------------
(* database/database.py and SQLAlchemy's Session *)

\* Session.add
session_add(new, row) == new (+) SetToBag({row})

\* Session.commit: the pending rows become committed rows
session_commit(table, new) == table (+) new

\* a DatabaseHandler that makes its tables anew
init_tables_anew(tables_exist, table) == EmptyBag

\* DatabaseHandler.__init_tables: the rows of the table after it; drop_all
\* and create_all leave an empty table
DatabaseHandler_init_tables(tables_exist, table) ==
  IF tables_exist THEN table ELSE EmptyBag

\* DuplicatesPipeline.__fetch_scraped_item_urls
fetch_scraped_item_urls(table) == ScrapedUrls(table)

----------------------------------------------------------------------------
(* pipelines/duplicates_pipeline.py, pipelines/postgres_pipeline.py *)

\* a membership test that never signals a duplicate
process_item_never_drops(item, seen) == Returned(item)

\* a membership test inverted: drops the records that are new
process_item_drops_new(item, seen) ==
  IF item.scrape_metadata.url \notin seen THEN Raised("DropItem") ELSE Returned(item)

\* DuplicatesPipeline.process_item
DuplicatesPipeline_process_item(item, seen) ==
  IF item.scrape_metadata.url \in seen THEN Raised("DropItem") ELSE Returned(item)

\* a filter that remembers the URL of every record it is given
seen_after_adds_url(item, seen) == seen \cup {item.scrape_metadata.url}

\* item_urls_seen after DuplicatesPipeline.process_item
DuplicatesPipeline_seen_after(item, seen) == seen

\* PostgresPipeline.process_item, on the state of the writer; the result is
\* the writer's state after the call and whether the call raised
PostgresPipeline_process_item(item, n, new, table) ==
  LET n1 == n + 1
      db_item == from_dict(item)
  IN IF db_item.raised
     THEN [num_items |-> n1, new |-> new, table |-> table, committed |-> FALSE,
           raised |-> TRUE]
     ELSE LET new1 == session_add(new, db_item.value)
          IN IF n1 % batch_size = 0
             THEN [num_items |-> n1, new |-> EmptyBag,
                   table |-> session_commit(table, new1),
                   committed |-> TRUE, raised |-> FALSE]
             ELSE [num_items |-> n1, new |-> new1, table |-> table,
                   committed |-> FALSE, raised |-> FALSE]

\* the process starts: db_handler is built on import of database.py, then the
\* pipelines are constructed by from_crawler
ConstructPipelines ==
  /\ pc \in {"idle", "done"}
  /\ run < MaxRuns
  /\ pc' = "crawling"
  /\ run' = run + 1
  /\ opened' = {}
  /\ closed' = {}
  /\ storage' = DatabaseHandler_init_tables(has_table, storage)
  /\ has_table' = TRUE
  /\ item_urls_seen' = fetch_scraped_item_urls(storage')
  /\ num_url_queries' = 1
  /\ num_items' = 0
  /\ session_new' = EmptyBag
  /\ storage_at_start' = storage'
  /\ offered' = EmptyBag
  /\ handed' = EmptyBag
  /\ dropped' = EmptyBag
  /\ last' = NoCall
  /\ commits' = 0
  /\ close_log' = <<>>
  /\ UNCHANGED <<fed, any_fed>>

\* DuplicatesPipeline.open_spider and PostgresPipeline.open_spider
open_spider(p) ==
  /\ pc = "crawling"
  /\ p \notin opened
  /\ opened' = opened \cup {p}
  /\ UNCHANGED <<pc, run, closed, pipe_vars, hist_vars, spider_vars>>

\* one record goes through the item pipelines in the order of ITEM_PIPELINES
ItemScraped(item) ==
  /\ pc = "crawling"
  /\ opened = Pipelines
  /\ LET res == DuplicatesPipeline_process_item(item, item_urls_seen)
         w == PostgresPipeline_process_item(res.value, num_items, session_new, storage)
     IN /\ item_urls_seen' = DuplicatesPipeline_seen_after(item, item_urls_seen)
        /\ offered' = offered (+) SetToBag({item})
        /\ last' = [item |-> item, outcome |-> IF res.raised THEN "dropped" ELSE "passed",
                    result |-> res, added |-> ~res.raised /\ ~w.raised]
        /\ IF res.raised
           THEN /\ dropped' = dropped (+) SetToBag({item})
                /\ UNCHANGED <<storage, session_new, num_items, handed, commits>>
           ELSE /\ handed' = handed (+) SetToBag({res.value})
                /\ num_items' = w.num_items
                /\ session_new' = w.new
                /\ storage' = w.table
                /\ commits' = IF w.committed THEN commits + 1 ELSE commits
                /\ UNCHANGED dropped
  /\ UNCHANGED <<life_vars, has_table, num_url_queries, storage_at_start, close_log>>

\* PostgresPipeline.close_spider: commit, close_all, handler.close
PostgresPipeline_close_spider ==
  /\ pc \in {"crawling", "closing"}
  /\ opened = Pipelines
  /\ requests = {}
  /\ "PostgresPipeline" \notin closed
  /\ storage' = session_commit(storage, session_new)
  /\ commits' = IF session_new # EmptyBag THEN commits + 1 ELSE commits
  /\ session_new' = EmptyBag
  /\ close_log' = close_log \o <<"commit", "close_all", "handler.close">>
  /\ closed' = closed \cup {"PostgresPipeline"}
  /\ pc' = IF closed' = Pipelines THEN "done" ELSE "closing"
  /\ UNCHANGED <<run, opened, has_table, num_items, item_urls_seen, num_url_queries,
                 storage_at_start, offered, handed, dropped, last, fed, any_fed, spider_vars>>

\* DuplicatesPipeline.close_spider: handler.close, whose sessionmaker.close_all
\* closes every session, the writer's included: its pending rows are expunged
DuplicatesPipeline_close_spider ==
  /\ pc \in {"crawling", "closing"}
  /\ opened = Pipelines
  /\ requests = {}
  /\ "DuplicatesPipeline" \notin closed
  /\ session_new' = EmptyBag
  /\ close_log' = close_log \o <<"handler.close">>
  /\ closed' = closed \cup {"DuplicatesPipeline"}
  /\ pc' = IF closed' = Pipelines THEN "done" ELSE "closing"
  /\ UNCHANGED <<run, opened, storage, has_table, num_items, item_urls_seen, num_url_queries,
                 storage_at_start, offered, handed, dropped, last, commits, fed, any_fed, spider_vars>>

----------------------------------------------------------------------------
(* concrete_items: real_estate_list_urls_paginated of the list adapters.    *)
(* A list page is its URL and what its markup holds: the text of the       *)
(* result counter (None when the element is missing) or, for the Habita    *)
(* API, numResults.                                                        *)

SeqToSet(q) == {q[i] : i \in DOMAIN q}

\* f"{self.url}?page={page}"
PageUrl(url, k) == url \o <<"?page=", ToString(k)>>

\* habita_com._create_api_url
create_api_url(page, items_per_page_, listing_query_type) ==
  <<"https://www.habita.com/propertysearch/results/en/", ToString(page), "/",
    ToString(items_per_page_), "/full?", "countries=", "1,3,15,9", "&sort=newest&",
    "type=", listing_query_type>>

\* a pagination extraction that takes a counter it cannot read for one page
paginated_guessing_one_page(page) ==
  IF Contains(page.url, "?page=") THEN Returned(<<>>)
  ELSE IF page.total_results = None \/ ~page.total_results[1].numeric
  THEN Returned(<<PageUrl(page.url, 1)>>)
  ELSE Returned([k \in 1..((page.total_results[1].number \div items_per_page) + 1) |->
                   PageUrl(page.url, k)])

\* a pagination extraction that leaves the page after the full ones out
paginated_without_last_page(page) ==
  IF Contains(page.url, "?page=") THEN Returned(<<>>)
  ELSE IF page.total_results = None THEN Returned(<<>>)
  ELSE IF ~page.total_results[1].numeric THEN Raised("ValueError")
  ELSE Returned([k \in 1..(page.total_results[1].number \div items_per_page) |->
                   PageUrl(page.url, k)])

\* RealoBeRealEstateListPage (and RealoEsRealEstateListPage, which inherits it)
RealoBe_real_estate_list_urls_paginated(page) ==
  IF Contains(page.url, "?page=") THEN Returned(<<>>)
  ELSE IF page.total_results = None THEN Returned(<<>>)
  ELSE IF ~page.total_results[1].numeric THEN Raised("ValueError")
  ELSE LET match_number == page.total_results[1].number
           pages == (match_number \div items_per_page) + 1
       IN Returned([k \in 1..pages |-> PageUrl(page.url, k)])

\* GreenAcresGrRealEstateListPage (and GreenAcresEsRealEstateListPage)
GreenAcresGr_real_estate_list_urls_paginated(page) ==
  IF Contains(page.url, "?p_n=") THEN Returned(<<>>)
  ELSE IF page.total_results = None THEN Raised("TypeError")
  ELSE IF ~page.total_results[1].numeric THEN Raised("ValueError")
  ELSE LET match_number == page.total_results[1].number
           pages == (match_number \div green_acres_items_per_page) + 1
       IN Returned([k \in 1..pages |->
                      <<"https://www.green-acres.gr", "/property-for-sale", "?p_n=", ToString(k)>>])

\* HabitaComRealEstateListPage
HabitaCom_real_estate_list_urls_paginated(page) ==
  LET listing_query_type == page.url[Len(page.url)]
      num_results == page.total_results[1].number
      num_pages == (num_results \div habita_items_per_page) + 1
  IN Returned([k \in 1..num_pages |-> create_api_url(k, habita_items_per_page, listing_query_type)])

\* RealEstateListPage.real_estate_list_urls_paginated, which the Tospitimou
\* and the three Immowelt list adapters do not override
RealEstateListPage_real_estate_list_urls_paginated(page) == Raised("NotImplementedError")

ListAdapters == {"RealoBeRealEstateListPage", "RealoEsRealEstateListPage",
                 "GreenAcresGrRealEstateListPage", "GreenAcresEsRealEstateListPage",
                 "HabitaComRealEstateListPage", "TospitimouGrRealEstateListPage",
                 "ImmoweltRealEstateListPage", "ImmoweltAtRealEstateListPage",
                 "ImmoweltDeRealEstateListPage"}

\* method resolution: the function each registered list adapter runs
paginated_of(adapter, page) ==
  CASE adapter \in {"RealoBeRealEstateListPage", "RealoEsRealEstateListPage"} ->
         RealoBe_real_estate_list_urls_paginated(page)
    [] adapter \in {"GreenAcresGrRealEstateListPage", "GreenAcresEsRealEstateListPage"} ->
         GreenAcresGr_real_estate_list_urls_paginated(page)
    [] adapter = "HabitaComRealEstateListPage" ->
         HabitaCom_real_estate_list_urls_paginated(page)
    [] OTHER -> RealEstateListPage_real_estate_list_urls_paginated(page)

\* the list URL of each site as its home page (or start_urls) produces it
BaseListUrl(adapter) ==
  CASE adapter \in {"RealoBeRealEstateListPage", "RealoEsRealEstateListPage"} -> ListUrl(1)
    [] adapter \in {"GreenAcresGrRealEstateListPage", "GreenAcresEsRealEstateListPage"} ->
         <<"https://www.green-acres.gr", "/property-for-sale/attica">>
    [] adapter = "HabitaComRealEstateListPage" -> create_api_url(1, 1, "ResidenceSale")
    [] adapter = "TospitimouGrRealEstateListPage" -> <<"https://en.tospitimou.gr", "/sale">>
    [] OTHER -> <<"https://www.immowelt.at/liste/", "wien/wohnungen">>

\* the k-th result page of each site, as the site's own code builds its URL
PaginatedListUrl(adapter, k) ==
  CASE adapter \in {"RealoBeRealEstateListPage", "RealoEsRealEstateListPage"} ->
         PageUrl(ListUrl(1), k)
    [] adapter \in {"GreenAcresGrRealEstateListPage", "GreenAcresEsRealEstateListPage"} ->
         <<"https://www.green-acres.gr", "/property-for-sale", "?p_n=", ToString(k)>>
    [] adapter = "HabitaComRealEstateListPage" ->
         create_api_url(k, habita_items_per_page, "ResidenceSale")
    [] adapter = "TospitimouGrRealEstateListPage" ->
         <<"https://en.tospitimou.gr", "/sale", "?page=", ToString(k)>>
    [] OTHER -> <<"https://www.immowelt.at/liste/", "wien/wohnungen", "?cp=", ToString(k)>>

NoPaginatedCall == [adapter |-> "none"]

\* the list pages an adapter can be given: the site's list URL or one of its
\* result pages, with a result counter that is missing, malformed or a number
ListPageInputs(adapter) ==
  {[url |-> u, total_results |-> t] :
     u \in {BaseListUrl(adapter)} \cup {PaginatedListUrl(adapter, k) : k \in 1..MaxPages},
     t \in IF adapter = "HabitaComRealEstateListPage"
           THEN {Some(ResultsText(n)) : n \in 0..MaxResults}
           ELSE {None, Some(MalformedText)} \cup {Some(ResultsText(n)) : n \in 0..MaxResults}}

\* TRUE iff the URL carries the pagination marker of the adapter's site
HasPaginationMarker(adapter, url) ==
  CASE adapter \in {"RealoBeRealEstateListPage", "RealoEsRealEstateListPage",
                    "TospitimouGrRealEstateListPage"} -> Contains(url, "?page=")
    [] adapter \in {"GreenAcresGrRealEstateListPage", "GreenAcresEsRealEstateListPage"} ->
         Contains(url, "?p_n=")
    [] adapter = "HabitaComRealEstateListPage" -> url[4] = ToString(habita_items_per_page)
    [] OTHER -> Contains(url, "?cp=")

----------------------------------------------------------------------------
(* items.py: the page objects, their fields read from the site's markup *)

AbstractClasses == {"RealEstateHomePage", "RealEstateListPage", "RealEstatePage"}

\* the concrete page classes the adapter modules define
HomePages == {"GreenAcresEsRealEstateHomePage", "GreenAcresGrRealEstateHomePage",
              "HabitaComRealEstateHomePage", "RealoBeRealEstateHomePage",
              "RealoEsRealEstateHomePage", "TospitimouGrRealEstateHomePage"}

DetailPages == {"GreenAcresEsRealEstatePage", "GreenAcresGrRealEstatePage",
                "HabitaComRealEstatePage", "ImmoweltAtRealEstatePage",
                "ImmoweltDeRealEstatePage", "ImmoweltRealEstatePage",
                "RealoBeRealEstatePage", "RealoEsRealEstatePage",
                "TospitimouGrRealEstatePage"}

\* issubclass(cls, abstract_class)
issubclass(cls, abstract_class) ==
  \/ cls = abstract_class
  \/ abstract_class = "RealEstateHomePage" /\ cls \in HomePages
  \/ abstract_class = "RealEstateListPage" /\ cls \in ListAdapters
  \/ abstract_class = "RealEstatePage" /\ cls \in DetailPages

\* the page classes in the order of their names, the order in which
\* inspect.getmembers lists the members of a module
ClassOrder ==
  <<"GreenAcresEsRealEstateHomePage", "GreenAcresEsRealEstateListPage", "GreenAcresEsRealEstatePage",
    "GreenAcresGrRealEstateHomePage", "GreenAcresGrRealEstateListPage", "GreenAcresGrRealEstatePage",
    "HabitaComRealEstateHomePage", "HabitaComRealEstateListPage", "HabitaComRealEstatePage",
    "ImmoweltAtRealEstateListPage", "ImmoweltAtRealEstatePage",
    "ImmoweltDeRealEstateListPage", "ImmoweltDeRealEstatePage",
    "ImmoweltRealEstateListPage", "ImmoweltRealEstatePage",
    "RealEstateHomePage", "RealEstateListPage", "RealEstatePage",
    "RealoBeRealEstateHomePage", "RealoBeRealEstateListPage", "RealoBeRealEstatePage",
    "RealoEsRealEstateHomePage", "RealoEsRealEstateListPage", "RealoEsRealEstatePage",
    "TospitimouGrRealEstateHomePage", "TospitimouGrRealEstateListPage", "TospitimouGrRealEstatePage">>

\* home pages that all declare one domain
domain_shared(cls) == Domain

\* RealEstateHomePage.domain of the concrete home pages
domain(cls) ==
  CASE cls = "GreenAcresEsRealEstateHomePage" -> "green-acres.es"
    [] cls = "GreenAcresGrRealEstateHomePage" -> "green-acres.gr"
    [] cls = "HabitaComRealEstateHomePage" -> "habita.com"
    [] cls = "RealoBeRealEstateHomePage" -> Domain
    [] cls = "RealoEsRealEstateHomePage" -> "realo.es"
    [] cls = "TospitimouGrRealEstateHomePage" -> "tospitimou.gr"

\* RealEstateHomePage.should_use_selenium: False unless overridden; the
\* Spanish Green-Acres home page inherits the override of the Greek one
should_use_selenium(cls) ==
  cls \in {"GreenAcresGrRealEstateHomePage", "GreenAcresEsRealEstateHomePage",
           "TospitimouGrRealEstateHomePage"}

\* realo_es: num_city_pages
num_city_pages == 41

\* RealEstateHomePage.start_urls of the concrete home pages
start_urls(cls) ==
  CASE cls = "GreenAcresEsRealEstateHomePage" -> <<<<"https://www.green-acres.es", "/en/properties">>>>
    [] cls = "GreenAcresGrRealEstateHomePage" -> <<<<"https://www.green-acres.gr", "/en/properties">>>>
    [] cls = "HabitaComRealEstateHomePage" -> <<<<"https://www.habita.com", "/">>>>
    [] cls = "RealoBeRealEstateHomePage" -> <<HomeUrl>>
    [] cls = "RealoEsRealEstateHomePage" ->
         [i \in 1..num_city_pages |-> <<"https://www.realo.es", "/en/cities?page=", ToString(i)>>]
    [] cls = "TospitimouGrRealEstateHomePage" -> <<<<"https://en.tospitimou.gr", "/">>>>

\* RealEstateListPage.parent_page_type: the home page class of the same
\* module; the Immowelt list pages do not override it
parent_page_type(cls) ==
  CASE cls = "GreenAcresEsRealEstateListPage" -> Returned("GreenAcresEsRealEstateHomePage")
    [] cls = "GreenAcresGrRealEstateListPage" -> Returned("GreenAcresGrRealEstateHomePage")
    [] cls = "HabitaComRealEstateListPage" -> Returned("HabitaComRealEstateHomePage")
    [] cls = "RealoBeRealEstateListPage" -> Returned("RealoBeRealEstateHomePage")
    [] cls = "RealoEsRealEstateListPage" -> Returned("RealoEsRealEstateHomePage")
    [] cls = "TospitimouGrRealEstateListPage" -> Returned("TospitimouGrRealEstateHomePage")
    [] OTHER -> Raised("NotImplementedError")

----------------------------------------------------------------------------
(* database/config.py *)

\* DBConfigProviderEnvVarBasedImpl.required_env_vars
required_env_vars ==
  <<"POSTGRES_DB", "POSTGRES_HOST", "POSTGRES_PORT", "POSTGRES_USER", "POSTGRES_PASSWORD">>

\* DBConfig(database, host, port, user, password)
DBConfig(database, host, port, user, password) ==
  [database |-> database, host |-> host, port |-> port, user |-> user, password |-> password]

\* int(str) on the port strings that occur
int(str) ==
  CASE str = "5432" -> Returned(5432)
    [] str = "5433" -> Returned(5433)
    [] OTHER -> Raised("ValueError")

\* _env_vars_available
env_vars_available(env) ==
  \A i \in DOMAIN required_env_vars : required_env_vars[i] \in DOMAIN env

\* DBConfigProviderEnvVarBasedImpl.get_config
EnvVarBased_get_config(env) ==
  IF ~env_vars_available(env) THEN Raised("ValueError")
  ELSE IF int(env["POSTGRES_PORT"]).raised THEN int(env["POSTGRES_PORT"])
  ELSE Returned(DBConfig(env["POSTGRES_DB"], env["POSTGRES_HOST"], int(env["POSTGRES_PORT"]).value,
                         env["POSTGRES_USER"], env["POSTGRES_PASSWORD"]))

\* the options DBConfigProviderFileBasedImpl.get_config reads, in its order
file_options ==
  <<<<"connection", "database">>, <<"connection", "host">>, <<"connection", "port">>,
    <<"credentials", "user">>, <<"credentials", "password">>>>

\* DBConfigProviderFileBasedImpl.get_config: a file configparser cannot read
\* raises its error from _get_config_object, outside the try; a missing
\* section or option is turned into ValueError; so is a port int() rejects
FileBased_get_config(file) ==
  IF ~file.parsable THEN Raised("configparser.Error")
  ELSE IF \E i \in DOMAIN file_options : file_options[i] \notin DOMAIN file.content
  THEN Raised("ValueError")
  ELSE IF int(file.content[<<"connection", "port">>]).raised
  THEN int(file.content[<<"connection", "port">>])
  ELSE Returned(DBConfig(file.content[<<"connection", "database">>],
                         file.content[<<"connection", "host">>],
                         int(file.content[<<"connection", "port">>]).value,
                         file.content[<<"credentials", "user">>],
                         file.content[<<"credentials", "password">>]))

\* a get_db_config that looks at the file first
get_db_config_file_first(env, file) ==
  IF file.config_path # None /\ file.exists
  THEN [provider |-> Some("file"), result |-> FileBased_get_config(file)]
  ELSE IF env_vars_available(env)
  THEN [provider |-> Some("env"), result |-> EnvVarBased_get_config(env)]
  ELSE [provider |-> None, result |-> Raised("ValueError")]

\* get_db_config: the provider chosen and what its get_config gives
get_db_config(env, file) ==
  IF env_vars_available(env)
  THEN [provider |-> Some("env"), result |-> EnvVarBased_get_config(env)]
  ELSE IF file.config_path # None /\ file.exists
  THEN [provider |-> Some("file"), result |-> FileBased_get_config(file)]
  ELSE [provider |-> None, result |-> Raised("ValueError")]

\* the environment of tests/database/test_config.py
TestEnviron ==
  [v \in SeqToSet(required_env_vars) |->
     CASE v = "POSTGRES_DB" -> "test"
       [] v = "POSTGRES_HOST" -> "localhost"
       [] v = "POSTGRES_PORT" -> "5432"
       [] v = "POSTGRES_USER" -> "test"
       [] v = "POSTGRES_PASSWORD" -> "test"]

\* the environments: each variable unset or set, POSTGRES_DB also to the
\* empty string, POSTGRES_PORT also to a string that is no number
Environs ==
  LET Values(v) == CASE v = "POSTGRES_DB" -> {TestEnviron[v], ""}
                     [] v = "POSTGRES_PORT" -> {TestEnviron[v], "http"}
                     [] OTHER -> {TestEnviron[v]}
  IN UNION {{env \in [set -> UNION {Values(v) : v \in set}] : \A v \in set : env[v] \in Values(v)}
            : set \in SUBSET SeqToSet(required_env_vars)}

\* a db.cfg with every expected field
FullConfig ==
  [o \in SeqToSet(file_options) |->
     CASE o = <<"connection", "database">> -> "real_estate"
       [] o = <<"connection", "host">> -> "db"
       [] o = <<"connection", "port">> -> "5433"
       [] o = <<"credentials", "user">> -> "scraper"
       [] o = <<"credentials", "password">> -> "secret"]

NoConfigFile == [config_path |-> None, exists |-> FALSE, parsable |-> FALSE, content |-> <<>>]

\* config_path None; a path without a file; a file with every field, without
\* the password, with a port that is no number, without a section header
ConfigFiles ==
  {NoConfigFile,
   [config_path |-> Some("db.cfg"), exists |-> FALSE, parsable |-> FALSE, content |-> <<>>],
   [config_path |-> Some("db.cfg"), exists |-> TRUE, parsable |-> FALSE, content |-> <<>>]} \cup
  {[config_path |-> Some("db.cfg"), exists |-> TRUE, parsable |-> TRUE, content |-> c] :
     c \in {FullConfig,
            [o \in SeqToSet(file_options) \ {<<"credentials", "password">>} |-> FullConfig[o]],
            [FullConfig EXCEPT ![<<"connection", "port">>] = "http"]}}

\* no response at hand
NoPage == [adapter |-> "none"]

----------------------------------------------------------------------------
(* format_checker.py and the number texts of the adapters *)

\* the characters of a text node: two digits, the two separators, a sign, a
\* letter
Alphabet == {"1", "9", ".", ",", "-", "a"}

TextNodes == UNION {[1..n -> Alphabet] : n \in 0..MaxTextLen}

\* \d
IsDigit(c) == \E v \in 0..9 : ToString(v) = c

\* int() of a run of digits
RECURSIVE int_of_digits(_)
int_of_digits(digits) ==
  IF digits = <<>> THEN 0
  ELSE 10 * int_of_digits(SubSeq(digits, 1, Len(digits) - 1))
       + (CHOOSE v \in 0..9 : ToString(v) = digits[Len(digits)])

\* str.replace(old, new) for a character old
RECURSIVE replace(_, _, _)
replace(string, old, new) ==
  IF string = <<>> THEN <<>>
  ELSE (IF Head(string) = old THEN new ELSE <<Head(string)>>) \o replace(Tail(string), old, new)

\* an extract_year that looks for four digits that make a year from 1700 to
\* 2099
extract_year_in_range(string) ==
  LET years == {i \in 1..(Len(string) - 3) :
                  /\ \A j \in i..(i + 3) : IsDigit(string[j])
                  /\ int_of_digits(SubSeq(string, i, i + 3)) \in 1700..2099}
  IN IF \A i \in DOMAIN string : ~IsDigit(string[i]) THEN Raised("ValueError")
     ELSE IF years = {} THEN Raised("ValueError")
     ELSE LET i == CHOOSE k \in years : \A l \in years : k <= l
          IN Returned(int_of_digits(SubSeq(string, i, i + 3)))

\* FormatChecker.extract_year: re.search(r"\d+", string), the first run of
\* digits, as an int
extract_year(string) ==
  LET digits == {i \in DOMAIN string : IsDigit(string[i])}
  IN IF digits = {} THEN Raised("ValueError")
     ELSE LET start == CHOOSE i \in digits : \A j \in digits : i <= j
              end == CHOOSE e \in start..Len(string) :
                       /\ \A j \in start..e : IsDigit(string[j])
                       /\ e = Len(string) \/ ~IsDigit(string[e + 1])
          IN Returned(int_of_digits(SubSeq(string, start, end)))

\* float(str) of a text: an optional sign, digits with at most one point and
\* at least one digit; the value is num / 10^scale
parse_float(string) ==
  LET neg == string # <<>> /\ Head(string) = "-"
      body == IF neg THEN Tail(string) ELSE string
      points == {i \in DOMAIN body : body[i] = "."}
  IN IF /\ \A i \in DOMAIN body : IsDigit(body[i]) \/ body[i] = "."
        /\ Cardinality(points) <= 1
        /\ \E i \in DOMAIN body : IsDigit(body[i])
     THEN Returned([neg |-> neg, num |-> int_of_digits(SelectSeq(body, IsDigit)),
                    scale |-> IF points = {} THEN 0
                              ELSE Len(body) - (CHOOSE i \in points : TRUE)])
     ELSE Raised("ValueError")

\* FormatChecker.is_numeric
is_numeric(string) == ~parse_float(string).raised

\* ImmoweltDeRealEstatePage.area, .price_amount on the number of the label
ImmoweltDe_number(label) ==
  LET num_str == replace(replace(label, ".", <<>>), ",", <<".">>)
  IN IF is_numeric(num_str) THEN Returned(Some(parse_float(num_str).value)) ELSE Returned(None)

\* ImmoweltDeRealEstatePage.heating_demand on the number of the text: float()
\* without is_numeric
ImmoweltDe_heating_demand_value(label) ==
  LET num_str == replace(replace(label, ".", <<>>), ",", <<".">>)
  IN IF parse_float(num_str).raised THEN parse_float(num_str)
     ELSE Returned(Some(parse_float(num_str).value))

\* GreenAcresGrRealEstatePage.price_amount on the number of the text
GreenAcresGr_number(label) ==
  LET number_text == replace(label, ",", <<>>)
  IN IF is_numeric(number_text) THEN Returned(Some(parse_float(number_text).value))
     ELSE Returned(None)

\* the extraction each number text of a page goes through
number_of(field, label) ==
  CASE field = "ImmoweltDe.area" -> ImmoweltDe_number(label)
    [] field = "ImmoweltDe.heating_demand" -> ImmoweltDe_heating_demand_value(label)
    [] field = "GreenAcresGr.price_amount" -> GreenAcresGr_number(label)

NumberFields == {"ImmoweltDe.area", "ImmoweltDe.heating_demand", "GreenAcresGr.price_amount"}

----------------------------------------------------------------------------
(* concrete_items/habita_com.py: the item data handed from list to detail page *)

\* the ids the API can give, as the digits of their decimal form: of six
\* digits, of five, and of seven that begin with those of another item
HabitaIds == {<<"1", "1", "1", "1", "1", "1">>, <<"1", "1", "1", "1", "1", "9">>,
              <<"1", "1", "1", "1", "1">>, <<"1", "1", "1", "1", "1", "1", "9">>}

\* HabitaItemData of the item with these digits
HabitaItemData(digits) == [id |-> int_of_digits(digits)]

\* the URL of the k-th result page of the API and the URL real_estate_urls
\* builds for an item, as the text before the number and the number
HabitaResultsUrl(k) == <<"https://www.habita.com/propertysearch/results/en/", <<ToString(k)>>>>

HabitaItemUrl(item_id_digits) == <<"https://www.habita.com/property/en/", item_id_digits>>

\* the API: the items on each result page
HabitaApis == [results : [1..NumApiPages -> SUBSET HabitaIds]]

\* item_map after HabitaComRealEstateListPage.real_estate_urls on results
item_map_after(map, results) ==
  [item_id \in DOMAIN map \cup {int_of_digits(d) : d \in results} |->
     IF \E d \in results : int_of_digits(d) = item_id
     THEN HabitaItemData(CHOOSE d \in results : int_of_digits(d) = item_id)
     ELSE map[item_id]]

\* HabitaComRealEstatePage.data: re.findall(r"\d{6}", url)[0], the first six
\* digits in a row, is the key read from item_map
HabitaCom_data(map, url) ==
  LET result == IF Len(url[2]) >= 6 THEN <<SubSeq(url[2], 1, 6)>> ELSE <<>>
  IN IF result = <<>> THEN Raised("IndexError")
     ELSE LET item_id == int_of_digits(result[1])
          IN IF item_id \notin DOMAIN map THEN Raised("KeyError")
             ELSE Returned(map[item_id])

----------------------------------------------------------------------------
(* concrete_items: the detail page objects *)

\* the module family of a detail page class: the Spanish Realo and
\* Green-Acres pages inherit the extraction of their base
Family(cls) ==
  CASE cls \in {"RealoBeRealEstatePage", "RealoEsRealEstatePage"} -> "realo"
    [] cls \in {"GreenAcresGrRealEstatePage", "GreenAcresEsRealEstatePage"} -> "green_acres"
    [] cls = "HabitaComRealEstatePage" -> "habita"
    [] cls = "TospitimouGrRealEstatePage" -> "tospitimou"
    [] cls = "ImmoweltRealEstatePage" -> "immowelt"
    [] cls = "ImmoweltAtRealEstatePage" -> "immowelt_at"
    [] cls = "ImmoweltDeRealEstatePage" -> "immowelt_de"

\* float(str) on the price strings that occur
float(str) ==
  CASE str = "0" -> Returned(0)
    [] str = "1000" -> Returned(1000)
    [] OTHER -> Raised("ValueError")

\* RealEstatePage.country; Habita looks the country of the API item up, the
\* others return a constant
RealEstatePage_country(p) ==
  CASE Family(p.adapter) = "habita" ->
         IF p.rest_found THEN Returned(Some("FIN")) ELSE Raised("KeyError")
    [] p.adapter = "RealoBeRealEstatePage" -> Returned(Some("BEL"))
    [] p.adapter \in {"RealoEsRealEstatePage", "GreenAcresEsRealEstatePage"} -> Returned(Some("ESP"))
    [] Family(p.adapter) \in {"green_acres", "tospitimou"} -> Returned(Some("GRC"))
    [] Family(p.adapter) = "immowelt_de" -> Returned(Some("DEU"))
    [] OTHER -> Returned(Some("AUT"))

\* RealEstatePage.city: p.city is the text the city is read from (None: the
\* node or key is not there)
RealEstatePage_city(p) ==
  CASE Family(p.adapter) = "realo" ->
         IF ~TruthyStr(p.city) THEN Raised("DropItem") ELSE Returned(p.city)
    [] Family(p.adapter) = "habita" -> Returned(p.city)
    [] Family(p.adapter) = "tospitimou" ->
         IF p.city = None THEN Raised("AttributeError")
         ELSE IF ~TruthyStr(p.city) \/ ~TruthyStr(p.zip) THEN Raised("IndexError")
         ELSE Returned(p.city)
    [] OTHER -> IF p.city = None THEN Raised("AttributeError") ELSE Returned(p.city)

\* RealEstatePage.zip_code: p.zip is the ZIP in the URL or the address (Some("")
\* when the text has none, None when the address is not there); Realo asks a
\* match without groups for group 1
RealEstatePage_zip_code(p) ==
  CASE Family(p.adapter) = "realo" ->
         IF TruthyStr(p.zip) THEN Raised("IndexError")
         ELSE IF p.zip = None THEN Raised("AttributeError")
         ELSE Raised("DropItem")
    [] Family(p.adapter) = "green_acres" -> Returned(None)
    [] Family(p.adapter) = "tospitimou" ->
         IF p.city = None THEN Raised("AttributeError")
         ELSE IF ~TruthyStr(p.city) \/ ~TruthyStr(p.zip) THEN Raised("IndexError")
         ELSE Returned(p.zip)
    [] OTHER ->
         IF p.zip = None THEN Raised("AttributeError")
         ELSE IF ~TruthyStr(p.zip) THEN Raised("IndexError")
         ELSE Returned(p.zip)

\* RealEstatePage.listing_type: from the type or price caption of the page
\* (p.caption) or from the URL (p.url_listing)
RealEstatePage_listing_type(p) ==
  CASE Family(p.adapter) = "realo" ->
         IF ~TruthyStr(p.caption) THEN Raised("DropItem")
         ELSE IF p.caption = Some("For sale") THEN Returned("sale") ELSE Returned("rent")
    [] Family(p.adapter) = "green_acres" -> Returned("sale")
    [] Family(p.adapter) \in {"habita", "tospitimou"} -> Returned(p.url_listing)
    [] Family(p.adapter) = "immowelt" ->
         IF p.caption = None THEN Raised("AttributeError")
         ELSE IF p.caption = Some("Gesamtmiete") THEN Returned("rent") ELSE Returned("sale")
    [] OTHER ->
         IF p.caption = None THEN Raised("AttributeError")
         ELSE IF p.caption \in {Some("Gesamtmiete"), Some("Kaltmiete")} THEN Returned("rent")
         ELSE Returned("sale")

\* RealEstatePage.area and the other optional fields of the page (energy data,
\* dates): Realo and Habita give None for what is not there, the others call
\* a method of the missing node
RealEstatePage_area(p) ==
  IF Family(p.adapter) \in {"realo", "habita"} \/ p.rest_found
  THEN Returned(Some(50)) ELSE Raised("AttributeError")

\* RealEstatePage.price_amount: p.price is the price text
RealEstatePage_price_amount(p) ==
  CASE Family(p.adapter) = "realo" ->
         IF ~TruthyStr(p.price) THEN Returned(None)
         ELSE IF float(p.price[1]).raised THEN float(p.price[1])
         ELSE Returned(Some(float(p.price[1]).value))
    [] Family(p.adapter) = "habita" ->
         IF p.price = None THEN Returned(None) ELSE Returned(Some(float(p.price[1]).value))
    [] Family(p.adapter) = "tospitimou" ->
         IF p.price = None THEN Raised("AttributeError")
         ELSE IF float(p.price[1]).raised THEN float(p.price[1])
         ELSE Returned(Some(float(p.price[1]).value))
    [] OTHER ->
         IF p.price = None THEN Raised("AttributeError")
         ELSE IF float(p.price[1]).raised THEN Returned(None)
         ELSE Returned(Some(float(p.price[1]).value))

\* a price_unit that gives the empty string for what is not for sale
price_unit_blank(p) ==
  IF RealEstatePage_listing_type(p).raised THEN RealEstatePage_listing_type(p)
  ELSE IF RealEstatePage_listing_type(p).value = "sale" THEN Returned("EUR") ELSE Returned("")

\* RealEstatePage.price_unit
RealEstatePage_price_unit(p) ==
  CASE Family(p.adapter) \in {"realo", "tospitimou", "habita"} ->
         IF RealEstatePage_listing_type(p).raised THEN RealEstatePage_listing_type(p)
         ELSE IF RealEstatePage_listing_type(p).value = "sale"
         THEN Returned("EUR") ELSE Returned("EUR/MONTH")
    [] Family(p.adapter) = "green_acres" -> Returned("EUR")
    [] Family(p.adapter) = "immowelt" -> Raised("NotImplementedError")
    [] Family(p.adapter) = "immowelt_at" ->
         IF p.caption = None THEN Raised("AttributeError")
         ELSE IF p.caption = Some("Kaufpreis") THEN Returned("EUR")
         ELSE IF p.caption \in {Some("Gesamtmiete"), Some("Kaltmiete")} THEN Returned("EUR/MONTH")
         ELSE Raised("NotImplementedError")
    [] Family(p.adapter) = "immowelt_de" ->
         IF p.caption = None THEN Raised("AttributeError")
         ELSE IF p.caption \in {Some("Kaufpreis"), Some("Mindestgebot")} THEN Returned("EUR")
         ELSE IF p.caption \in {Some("Gesamtmiete"), Some("Kaltmiete")} THEN Returned("EUR/MONTH")
         ELSE Raised("NotImplementedError")

\* RealEstatePage.object_type: p.object_type is the text or key it is read from
RealEstatePage_object_type(p) ==
  CASE Family(p.adapter) = "realo" ->
         IF ~TruthyStr(p.object_type) THEN Returned(Some("Unknown")) ELSE Returned(p.object_type)
    [] Family(p.adapter) = "tospitimou" ->
         IF p.object_type = None THEN Returned(Some("unknown")) ELSE Returned(p.object_type)
    [] Family(p.adapter) = "habita" -> Returned(p.object_type)
    [] Family(p.adapter) = "green_acres" ->
         IF p.object_type = None THEN Raised("IndexError") ELSE Returned(p.object_type)
    [] Family(p.adapter) = "immowelt" -> Raised("NotImplementedError")
    [] OTHER ->
         IF p.object_type = None THEN Raised("ValueError") ELSE Returned(p.object_type)

\* RealEstatePage.to_item on the page object of p.adapter: the properties
\* are read in the order of the keyword arguments, price_unit only for a
\* truthy amount; the first exception leaves to_item
RealEstatePage_to_item(p) ==
  LET amount == RealEstatePage_price_amount(p)
      reads == <<RealEstatePage_country(p), RealEstatePage_city(p), RealEstatePage_zip_code(p),
                 RealEstatePage_listing_type(p), RealEstatePage_area(p), amount,
                 IF ~amount.raised /\ TruthyNum(amount.value)
                 THEN RealEstatePage_price_unit(p) ELSE Returned(""),
                 RealEstatePage_object_type(p)>>
      failed == {i \in DOMAIN reads : reads[i].raised}
  IN IF failed # {}
     THEN reads[CHOOSE i \in failed : \A j \in failed : i <= j]
     ELSE Returned(to_item([url |-> p.url, country |-> reads[1].value, city |-> reads[2].value,
                            zip_code |-> reads[3].value, listing_type |-> reads[4].value,
                            area |-> reads[5].value, price_amount |-> amount.value,
                            price_unit |-> reads[7].value, heating_demand |-> None,
                            energy_efficiency |-> None, epc_pdf_url |-> None,
                            epc_issued_date |-> None, date_of_building |-> None,
                            object_type |-> reads[8].value], 0))

\* the responses of detail pages: for each page class, what the nodes it reads
\* hold (a field a class does not read is left at one value)
RawPages ==
  LET Reads(cls, field) ==
        CASE field = "city" -> TRUE
          [] field = "zip" -> Family(cls) # "green_acres"
          [] field = "caption" -> Family(cls) \in {"realo", "immowelt", "immowelt_at", "immowelt_de"}
          [] field = "url_listing" -> Family(cls) \in {"habita", "tospitimou"}
          [] field = "rest_found" -> Family(cls) # "realo"
          [] field = "object_type" -> Family(cls) # "immowelt"
          [] OTHER -> TRUE
      Texts(cls, field, found, others) == IF Reads(cls, field) THEN {found} \cup others ELSE {found}
  IN {p \in [adapter : DetailPages, url : {DetailUrl(1)},
             city : {None, Some(""), Some("Gent")},
             zip : {None, Some(""), Some("9000")},
             caption : {None, Some("For sale"), Some("For rent"), Some("Kaufpreis"),
                        Some("Kaltmiete"), Some("Preis")},
             url_listing : {"sale", "rent"},
             price : {None, Some("0"), Some("1000"), Some("on request")},
             object_type : {None, Some("House")},
             rest_found : BOOLEAN] :
        /\ p.zip \in Texts(p.adapter, "zip", Some("9000"), {None, Some("")})
        /\ p.caption \in
             IF Family(p.adapter) = "realo" THEN {None, Some("For sale"), Some("For rent")}
             ELSE Texts(p.adapter, "caption", Some("Kaufpreis"), {None, Some("Kaltmiete"), Some("Preis")})
        /\ p.url_listing \in Texts(p.adapter, "url_listing", "sale", {"rent"})
        /\ p.rest_found \in Texts(p.adapter, "rest_found", TRUE, {FALSE})
        /\ p.object_type \in Texts(p.adapter, "object_type", Some("House"), {None})
        /\ Family(p.adapter) = "habita" => p.price # Some("on request")}

----------------------------------------------------------------------------
(* concrete_items/__init__.py: the adapter registry *)

\* the modules of the package in the order pkgutil.iter_modules yields them
ModuleOrder == <<"greek_acres_es", "green_acres_gr", "habita_com", "immowelt", "immowelt_at",
                 "immowelt_de", "realo_be", "realo_es", "tospitimou_gr">>

Modules == SeqToSet(ModuleOrder)

\* the page classes among the members of each module: the classes it defines
\* and the abstract classes it imports from items.py
module_classes(m) ==
  CASE m = "greek_acres_es" ->
         {"GreenAcresEsRealEstateHomePage", "GreenAcresEsRealEstateListPage",
          "GreenAcresEsRealEstatePage", "RealEstateHomePage", "RealEstateListPage"}
    [] m = "green_acres_gr" ->
         {"GreenAcresGrRealEstateHomePage", "GreenAcresGrRealEstateListPage",
          "GreenAcresGrRealEstatePage"} \cup AbstractClasses
    [] m = "habita_com" ->
         {"HabitaComRealEstateHomePage", "HabitaComRealEstateListPage",
          "HabitaComRealEstatePage"} \cup AbstractClasses
    [] m = "immowelt" ->
         {"ImmoweltRealEstateListPage", "ImmoweltRealEstatePage",
          "RealEstateListPage", "RealEstatePage"}
    [] m = "immowelt_at" ->
         {"ImmoweltAtRealEstateListPage", "ImmoweltAtRealEstatePage",
          "RealEstateListPage", "RealEstatePage"}
    [] m = "immowelt_de" ->
         {"ImmoweltDeRealEstateListPage", "ImmoweltDeRealEstatePage",
          "RealEstateListPage", "RealEstatePage"}
    [] m = "realo_be" ->
         {"RealoBeRealEstateHomePage", "RealoBeRealEstateListPage",
          "RealoBeRealEstatePage"} \cup AbstractClasses
    [] m = "realo_es" ->
         {"RealoEsRealEstateHomePage", "RealoEsRealEstateListPage",
          "RealoEsRealEstatePage", "RealEstateHomePage", "RealEstateListPage"}
    [] m = "tospitimou_gr" ->
         {"TospitimouGrRealEstateHomePage", "TospitimouGrRealEstateListPage",
          "TospitimouGrRealEstatePage"} \cup AbstractClasses

\* the module a derived module imports (under an alias) and subclasses
base_module(m) ==
  CASE m = "greek_acres_es" -> "green_acres_gr"
    [] m = "realo_es" -> "realo_be"

DerivedModules == {"greek_acres_es", "realo_es"}

\* inspect.getmembers(module, inspect.isclass), sorted by name.  A derived
\* module that imports the classes of its base module by name, the way every
\* module imports the abstract classes, holds them as members too.
getmembers(m, by_name) ==
  LET members == module_classes(m) \cup
                 (IF by_name THEN module_classes(base_module(m)) ELSE {})
  IN SelectSeq(ClassOrder, LAMBDA cls : cls \in members)

\* a lookup that returns the last match
get_concrete_class_last(class_tuples, abstract_class) ==
  LET matches == SelectSeq(class_tuples,
                           LAMBDA cls : issubclass(cls, abstract_class) /\ cls # abstract_class)
  IN IF matches = <<>> THEN Raised("ValueError") ELSE Returned(matches[Len(matches)])

\* _get_concrete_class: the first match, ValueError when there is none
get_concrete_class(class_tuples, abstract_class) ==
  LET matches == SelectSeq(class_tuples,
                           LAMBDA cls : issubclass(cls, abstract_class) /\ cls # abstract_class)
  IN IF matches = <<>> THEN Raised("ValueError") ELSE Returned(matches[1])

\* d[k] = v on a dict
dict_set(d, k, v) == [x \in DOMAIN d \cup {k} |-> IF x = k THEN v ELSE d[x]]

EmptyDict == [x \in {} |-> x]

\* a registration loop that skips a module lacking a role instead of raising
register_skipping(ovr, sud, m, by_name) ==
  LET classes == getmembers(m, by_name)
      home_page_class == get_concrete_class(classes, "RealEstateHomePage")
      list_page_class == get_concrete_class(classes, "RealEstateListPage")
      page_class_ == get_concrete_class(classes, "RealEstatePage")
  IN IF home_page_class.raised \/ list_page_class.raised \/ page_class_.raised
     THEN Returned([overrides |-> dict_set(ovr, "", [RealEstateHomePage |-> ""]),
                    start_url_dict |-> sud, domain |-> ""])
     ELSE Returned([overrides |-> dict_set(ovr, domain(home_page_class.value),
                                           [RealEstateHomePage |-> home_page_class.value,
                                            RealEstateListPage |-> list_page_class.value,
                                            RealEstatePage |-> page_class_.value]),
                    start_url_dict |-> dict_set(sud, home_page_class.value,
                                                start_urls(home_page_class.value)),
                    domain |-> domain(home_page_class.value)])

\* one iteration of the registration loop on the two dicts; raises when a
\* role has no concrete class
register(ovr, sud, m, by_name) ==
  LET classes == getmembers(m, by_name)
      home_page_class == get_concrete_class(classes, "RealEstateHomePage")
      list_page_class == get_concrete_class(classes, "RealEstateListPage")
      page_class == get_concrete_class(classes, "RealEstatePage")
  IN IF home_page_class.raised THEN home_page_class
     ELSE IF list_page_class.raised THEN list_page_class
     ELSE IF page_class.raised THEN page_class
     ELSE LET domain_specific_overrides ==
                [RealEstateHomePage |-> home_page_class.value,
                 RealEstateListPage |-> list_page_class.value,
                 RealEstatePage |-> page_class.value]
          IN Returned([overrides |-> dict_set(ovr, domain(home_page_class.value),
                                              domain_specific_overrides),
                       start_url_dict |-> dict_set(sud, home_page_class.value,
                                                   start_urls(home_page_class.value)),
                       domain |-> domain(home_page_class.value)])

\* position of a module in the package
ModuleIndex(m) == CHOOSE i \in DOMAIN ModuleOrder : ModuleOrder[i] = m

NoProbe == [fn |-> "none"]

\* the registration loop reaches module m of the package (a package holds
\* any of the modules; each is loaded once, in the order of the names)
LoadModule(m, by_name) ==
  /\ reg_status = "loading"
  /\ \A l \in loaded_modules : ModuleIndex(l) < ModuleIndex(m)
  /\ by_name => m \in DerivedModules
  /\ loaded_modules' = loaded_modules \cup {m}
  /\ LET res == register(overrides, start_url_dict, m, by_name)
     IN IF res.raised
        THEN /\ reg_status' = "failed"
             /\ probe' = [fn |-> "import", module |-> m, result |-> res]
             /\ UNCHANGED <<overrides, start_url_dict, reg_log>>
        ELSE /\ overrides' = res.value.overrides
             /\ start_url_dict' = res.value.start_url_dict
             /\ reg_log' = Append(reg_log, [module |-> m, by_name |-> by_name,
                                            domain |-> res.value.domain,
                                            triplet |-> res.value.overrides[res.value.domain]])
             /\ UNCHANGED <<reg_status, probe>>
  /\ UNCHANGED <<life_vars, pipe_vars, hist_vars, web, only_domain, requests, issued,
                 handled, invoked, paginated_call, input_vars>>

\* the registration loop has gone through the package: the import of
\* concrete_items returns
FinishLoading ==
  /\ reg_status = "loading"
  /\ reg_status' = "loaded"
  /\ UNCHANGED <<loaded_modules, overrides, start_url_dict, reg_log, probe>>
  /\ UNCHANGED <<life_vars, pipe_vars, hist_vars, web, only_domain, requests, issued,
                 handled, invoked, paginated_call, input_vars>>

\* concrete_items.get_start_url_dict
get_start_url_dict == start_url_dict

\* concrete_items.get_scrapy_poet_overrides
get_scrapy_poet_overrides == overrides

\* the registry of a package that holds the Realo module alone
RealoRegistry == register(EmptyDict, EmptyDict, "realo_be", FALSE).value

\* RealEstateHomePage.real_estate_list_urls
real_estate_list_urls(w, url) == {ListUrl(l) : l \in w.lists}

\* RealEstateListPage.real_estate_list_urls_paginated of the crawled site; an
\* exception in the callback yields no request
real_estate_list_urls_paginated(w, url) ==
  LET res == RealoBe_real_estate_list_urls_paginated(
               [url |-> url, total_results |-> w.total_results])
  IN IF res.raised THEN {} ELSE SeqToSet(res.value)

\* RealoBeRealEstateListPage.real_estate_urls
real_estate_urls(w, url) ==
  IF Contains(url, "?page=")
  THEN {DetailUrl(d) : d \in 1..w.det_page[IdOf(url[Len(url)])]}
  ELSE {DetailUrl(d) : d \in 1..w.det_list}

\* RealoBeRealEstatePage.city, .listing_type: a required field is missing on
\* the detail page, the adapter raises DropItem
cannot_be_scraped(w, url) == IdOf(url[Len(url)]) <= w.bad

----------------------------------------------------------------------------
(* spiders/real_estate_spider.py *)

Request(cb, url, selenium, by) == [cb |-> cb, url |-> url, selenium |-> selenium, by |-> by]

\* the registered domain of a URL's host, by which scrapy-poet looks up
\* SCRAPY_POET_OVERRIDES
get_domain(url) ==
  CASE url[1] \in {"https://www.realo.be", HomeUrl[1]} -> "realo.be"
    [] url[1] = "https://www.realo.es" -> "realo.es"
    [] url[1] = "https://www.green-acres.gr" -> "green-acres.gr"
    [] url[1] = "https://www.green-acres.es" -> "green-acres.es"
    [] url[1] \in {"https://www.habita.com",
                   "https://www.habita.com/propertysearch/results/en/"} -> "habita.com"
    [] url[1] = "https://en.tospitimou.gr" -> "tospitimou.gr"
    [] url[1] = "https://www.immowelt.at/liste/" -> "immowelt.at"
    [] OTHER -> "example.org"

\* the class injected for a callback's page argument: the override registered
\* for the URL's domain; a domain without overrides gets the annotated class
page_class(url, abstract_class) ==
  IF get_domain(url) \in DOMAIN get_scrapy_poet_overrides
  THEN get_scrapy_poet_overrides[get_domain(url)][abstract_class]
  ELSE abstract_class

\* a list callback that always follows with a plain request
request_policy_plain(cb, page) == Returned(FALSE)

\* the policy a callback uses for the requests it yields: parse_home_page asks
\* its page, parse_pagination and parse ask the parent page type of theirs
request_policy(cb, page) ==
  IF cb = "parse_home_page" THEN Returned(should_use_selenium(page))
  ELSE IF parent_page_type(page).raised THEN parent_page_type(page)
  ELSE Returned(should_use_selenium(parent_page_type(page).value))

\* a start_requests that ignores only_domain
start_requests_unfiltered(od) ==
  UNION {
    {Request("parse_home_page", url, should_use_selenium(cls), "start_requests") :
       url \in SeqToSet(get_start_url_dict[cls])}
    : cls \in DOMAIN get_start_url_dict}

\* RealEstateSpider.start_requests
start_requests(od) ==
  UNION {
    LET urls == get_start_url_dict[cls]
        urls_to_consider == IF od # None
                            THEN IF domain(cls) = od[1] THEN SeqToSet(urls) ELSE {}
                            ELSE SeqToSet(urls)
    IN {Request("parse_home_page", url, should_use_selenium(cls), "start_requests") :
          url \in urls_to_consider}
    : cls \in DOMAIN get_start_url_dict}

\* RealEstateSpider.parse_home_page
parse_home_page(w, url) ==
  LET policy == request_policy("parse_home_page", page_class(url, "RealEstateHomePage"))
  IN {Request("parse_pagination", u, policy.value, "parse_home_page") :
        u \in real_estate_list_urls(w, url)}

\* a single list callback: extracts the detail URLs too and feeds the
\* pagination URLs back into itself
parse_pagination_fed_back(w, url) ==
  LET policy == request_policy("parse_pagination", page_class(url, "RealEstateListPage"))
  IN {Request("parse_pagination", u, policy.value, "parse_pagination") :
        u \in real_estate_list_urls_paginated(w, url)}
     \cup
     {Request("RealEstatePage", u, policy.value, "parse_pagination") :
        u \in real_estate_urls(w, url)}

\* RealEstateSpider.parse_pagination
parse_pagination(w, url) ==
  LET policy == request_policy("parse_pagination", page_class(url, "RealEstateListPage"))
  IN IF policy.raised THEN {}
     ELSE {Request("parse", u, policy.value, "parse_pagination") :
             u \in real_estate_list_urls_paginated(w, url)}

\* RealEstateSpider.parse
parse(w, url) ==
  LET policy == request_policy("parse", page_class(url, "RealEstateListPage"))
  IN IF policy.raised THEN {}
     ELSE {Request("RealEstatePage", u, policy.value, "parse") :
             u \in real_estate_urls(w, url)}

\* the adapter extraction each list-stage callback invokes
extraction == [parse_home_page |-> "real_estate_list_urls",
               parse_pagination |-> "real_estate_list_urls_paginated",
               parse |-> "real_estate_urls"]

Invocation(cb, fn, url) == [cb |-> cb, fn |-> fn, url |-> url]

Handling(cb, url) == [cb |-> cb, url |-> url]

\* the process starts with the spider argument only_domain
StartCrawl(od) ==
  /\ ConstructPipelines
  /\ only_domain' = od
  /\ requests' = start_requests(od)
  /\ issued' = requests'
  /\ handled' = {}
  /\ invoked' = {}
  /\ UNCHANGED <<web, paginated_call, registry_vars, input_vars>>

\* Scrapy's scheduler: no request sets dont_filter, so the duplicates filter
\* drops a request whose URL a request of this run already carried
Scheduled(yielded, seen) == {y \in yielded : \A i \in seen : i.url # y.url}

Answered(r, yielded) ==
  /\ requests' = (requests \ {r}) \cup Scheduled(yielded, issued)
  /\ issued' = issued \cup yielded
  /\ handled' = handled \cup {Handling(r.cb, r.url)}

\* the response to a start request reaches parse_home_page
HomeParsed(r) ==
  /\ pc = "crawling" /\ opened = Pipelines
  /\ r \in requests /\ r.cb = "parse_home_page"
  /\ Answered(r, parse_home_page(web, r.url))
  /\ invoked' = invoked \cup {Invocation(r.cb, extraction[r.cb], r.url)}
  /\ UNCHANGED <<life_vars, pipe_vars, hist_vars, web, only_domain, paginated_call, registry_vars, input_vars>>

\* the response to a list request reaches parse_pagination
PaginationParsed(r) ==
  /\ pc = "crawling" /\ opened = Pipelines
  /\ r \in requests /\ r.cb = "parse_pagination"
  /\ Answered(r, parse_pagination(web, r.url))
  /\ invoked' = invoked \cup {Invocation(r.cb, extraction[r.cb], r.url)}
  /\ UNCHANGED <<life_vars, pipe_vars, hist_vars, web, only_domain, paginated_call, registry_vars, input_vars>>

\* the response to a paginated list request reaches parse
ListParsed(r) ==
  /\ pc = "crawling" /\ opened = Pipelines
  /\ r \in requests /\ r.cb = "parse"
  /\ Answered(r, parse(web, r.url))
  /\ invoked' = invoked \cup {Invocation(r.cb, extraction[r.cb], r.url)}
  /\ UNCHANGED <<life_vars, pipe_vars, hist_vars, web, only_domain, paginated_call, registry_vars, input_vars>>

\* the response to a detail request reaches callback_for(RealEstatePage):
\* to_item builds the record, which goes through the item pipelines
DetailParsed(r) ==
  /\ r \in requests /\ r.cb = "RealEstatePage"
  /\ ~cannot_be_scraped(web, r.url)
  /\ ItemScraped(to_item(DetailPage(IdOf(r.url[Len(r.url)])), 0))
  /\ Answered(r, {})
  /\ invoked' = invoked \cup {Invocation(r.cb, "to_item", r.url)}
  /\ UNCHANGED <<web, only_domain, paginated_call, registry_vars, input_vars, fed, any_fed>>

\* the same, on a page whose adapter raises DropItem: no record is built
DetailDropped(r) ==
  /\ pc = "crawling" /\ opened = Pipelines
  /\ r \in requests /\ r.cb = "RealEstatePage"
  /\ cannot_be_scraped(web, r.url)
  /\ Answered(r, {})
  /\ invoked' = invoked \cup {Invocation(r.cb, "to_item", r.url)}
  /\ UNCHANGED <<life_vars, pipe_vars, hist_vars, web, only_domain, paginated_call, registry_vars, input_vars>>

OnlyDomains == {None, Some(Domain), Some("other.at")}

Init ==
  /\ pc = "idle"
  /\ run = 0
  /\ opened = {}
  /\ closed = {}
  /\ storage \in {TableOf(1..k) : k \in 0..1}
  /\ has_table = TRUE
  /\ session_new = EmptyBag
  /\ num_items = 0
  /\ item_urls_seen = {}
  /\ num_url_queries = 0
  /\ storage_at_start = EmptyBag
  /\ offered = EmptyBag
  /\ handed = EmptyBag
  /\ dropped = EmptyBag
  /\ last = NoCall
  /\ commits = 0
  /\ close_log = <<>>
  /\ fed = 0
  /\ any_fed = 0
  /\ web \in Webs
  /\ only_domain = None
  /\ requests = {}
  /\ issued = {}
  /\ handled = {}
  /\ invoked = {}
  /\ paginated_call = NoPaginatedCall
  /\ reg_status = "loaded"
  /\ loaded_modules = {"realo_be"}
  /\ overrides = RealoRegistry.overrides
  /\ start_url_dict = RealoRegistry.start_url_dict
  /\ reg_log = <<[module |-> "realo_be", by_name |-> FALSE, domain |-> RealoRegistry.domain,
                  triplet |-> RealoRegistry.overrides[RealoRegistry.domain]]>>
  /\ probe = NoProbe
  /\ environ = TestEnviron
  /\ config_file = NoConfigFile
  /\ raw_page = NoPage
  /\ text = <<>>
  /\ item_map = EmptyDict

Next ==
  \/ \E od \in OnlyDomains : StartCrawl(od)
  \/ \E p \in Pipelines : open_spider(p)
  \/ \E r \in requests : HomeParsed(r)
  \/ \E r \in requests : PaginationParsed(r)
  \/ \E r \in requests : ListParsed(r)
  \/ \E r \in requests : DetailParsed(r)
  \/ \E r \in requests : DetailDropped(r)
  \/ PostgresPipeline_close_spider
  \/ DuplicatesPipeline_close_spider

Spec == Init /\ [][Next]_vars

\* a response Scrapy's engine has to deliver: the engine downloads every
\* scheduled request and calls its callback, after the pipelines were opened
Deliver ==
  \/ \E p \in Pipelines : open_spider(p)
  \/ \E r \in requests :
        HomeParsed(r) \/ PaginationParsed(r) \/ ListParsed(r) \/ DetailParsed(r) \/ DetailDropped(r)

\* the last process the model follows, started on an empty table
InitCrawl ==
  /\ pc = "idle"
  /\ run = MaxRuns - 1
  /\ opened = {}
  /\ closed = {}
  /\ storage = EmptyBag
  /\ has_table = TRUE
  /\ session_new = EmptyBag
  /\ num_items = 0
  /\ item_urls_seen = {}
  /\ num_url_queries = 0
  /\ storage_at_start = EmptyBag
  /\ offered = EmptyBag
  /\ handed = EmptyBag
  /\ dropped = EmptyBag
  /\ last = NoCall
  /\ commits = 0
  /\ close_log = <<>>
  /\ fed = 0
  /\ any_fed = 0
  /\ web \in Webs
  /\ only_domain = None
  /\ requests = {}
  /\ issued = {}
  /\ handled = {}
  /\ invoked = {}
  /\ paginated_call = NoPaginatedCall
  /\ reg_status = "loaded"
  /\ loaded_modules = {"realo_be"}
  /\ overrides = RealoRegistry.overrides
  /\ start_url_dict = RealoRegistry.start_url_dict
  /\ reg_log = <<[module |-> "realo_be", by_name |-> FALSE, domain |-> RealoRegistry.domain,
                  triplet |-> RealoRegistry.overrides[RealoRegistry.domain]]>>
  /\ probe = NoProbe
  /\ environ = TestEnviron
  /\ config_file = NoConfigFile
  /\ raw_page = NoPage
  /\ text = <<>>
  /\ item_map = EmptyDict

SpecCrawl == InitCrawl /\ [][Next]_vars /\ WF_vars(Deliver)

----------------------------------------------------------------------------
(* The list adapters' pagination extraction on its own *)

InitAdapters ==
  /\ pc = "idle"
  /\ run = 0
  /\ opened = {}
  /\ closed = {}
  /\ storage = EmptyBag
  /\ has_table = TRUE
  /\ session_new = EmptyBag
  /\ num_items = 0
  /\ item_urls_seen = {}
  /\ num_url_queries = 0
  /\ storage_at_start = EmptyBag
  /\ offered = EmptyBag
  /\ handed = EmptyBag
  /\ dropped = EmptyBag
  /\ last = NoCall
  /\ commits = 0
  /\ close_log = <<>>
  /\ fed = 0
  /\ any_fed = 0
  /\ web = EmptyWeb
  /\ only_domain = None
  /\ requests = {}
  /\ issued = {}
  /\ handled = {}
  /\ invoked = {}
  /\ paginated_call = NoPaginatedCall
  /\ reg_status = "loaded"
  /\ loaded_modules = {"realo_be"}
  /\ overrides = RealoRegistry.overrides
  /\ start_url_dict = RealoRegistry.start_url_dict
  /\ reg_log = <<[module |-> "realo_be", by_name |-> FALSE, domain |-> RealoRegistry.domain,
                  triplet |-> RealoRegistry.overrides[RealoRegistry.domain]]>>
  /\ probe = NoProbe
  /\ environ = TestEnviron
  /\ config_file = NoConfigFile
  /\ raw_page = NoPage
  /\ text = <<>>
  /\ item_map = EmptyDict

\* scrapy-poet builds the adapter's page object on a response and a callback
\* reads real_estate_list_urls_paginated
Paginate(adapter, page) ==
  /\ paginated_call' = [adapter |-> adapter, page |-> page,
                        result |-> paginated_of(adapter, page)]
  /\ UNCHANGED <<life_vars, pipe_vars, hist_vars, web, only_domain, requests,
                 issued, handled, invoked, registry_vars, input_vars>>

NextAdapters == \E adapter \in ListAdapters : \E page \in ListPageInputs(adapter) : Paginate(adapter, page)

SpecAdapters == InitAdapters /\ [][NextAdapters]_vars

----------------------------------------------------------------------------
(* The adapter registry: discovery, then calls of the spider on what it holds *)

InitRegistry ==
  /\ pc = "idle"
  /\ run = 0
  /\ opened = {}
  /\ closed = {}
  /\ storage = EmptyBag
  /\ has_table = TRUE
  /\ session_new = EmptyBag
  /\ num_items = 0
  /\ item_urls_seen = {}
  /\ num_url_queries = 0
  /\ storage_at_start = EmptyBag
  /\ offered = EmptyBag
  /\ handed = EmptyBag
  /\ dropped = EmptyBag
  /\ last = NoCall
  /\ commits = 0
  /\ close_log = <<>>
  /\ fed = 0
  /\ any_fed = 0
  /\ web = EmptyWeb
  /\ only_domain = None
  /\ requests = {}
  /\ issued = {}
  /\ handled = {}
  /\ invoked = {}
  /\ paginated_call = NoPaginatedCall
  /\ reg_status = "loading"
  /\ loaded_modules = {}
  /\ overrides = EmptyDict
  /\ start_url_dict = EmptyDict
  /\ reg_log = <<>>
  /\ probe = NoProbe
  /\ environ = TestEnviron
  /\ config_file = NoConfigFile
  /\ raw_page = NoPage
  /\ text = <<>>
  /\ item_map = EmptyDict

RegistryProbed ==
  UNCHANGED <<life_vars, pipe_vars, hist_vars, web, only_domain, requests, issued,
              handled, invoked, paginated_call, reg_status, loaded_modules, overrides,
              start_url_dict, reg_log, input_vars>>

\* the values of -a only_domain=...: unset, a registered domain, a domain
\* with its host prefix, an unknown domain
RegistryOnlyDomains ==
  {None, Some("realo.be"), Some("realo.es"), Some("green-acres.gr"),
   Some("www.realo.be"), Some("other.at")}

\* the spider is started on the loaded registry with only_domain = od
StartRequests(od) ==
  /\ reg_status = "loaded"
  /\ probe' = [fn |-> "start_requests", only_domain |-> od, result |-> start_requests(od)]
  /\ RegistryProbed

\* the abstract class each callback annotates its page argument with
page_annotation == [parse_home_page |-> "RealEstateHomePage",
                    parse_pagination |-> "RealEstateListPage",
                    parse |-> "RealEstateListPage"]

\* URLs a response can come from: an entry URL of each site, and a URL of a
\* host no module registers
FetchedUrls ==
  {start_urls(cls)[1] : cls \in HomePages} \cup {<<"https://www.example.org", "/">>}

\* a response from url reaches callback cb: the page is injected, the callback
\* reads its extraction and decides the policy of the requests it yields; on
\* the abstract page the extraction raises NotImplementedError, which Scrapy
\* logs, and the crawl goes on
CallbackOn(cb, url) ==
  /\ reg_status = "loaded"
  /\ LET page == page_class(url, page_annotation[cb])
     IN probe' = [fn |-> cb, url |-> url, page |-> page,
                  outcome |-> IF page \in AbstractClasses THEN "callback raised" ELSE "yielded",
                  result |-> request_policy(cb, page)]
  /\ RegistryProbed

NextRegistry ==
  \/ \E m \in Modules : \E by_name \in BOOLEAN : LoadModule(m, by_name)
  \/ FinishLoading
  \/ \E od \in RegistryOnlyDomains : StartRequests(od)
  \/ \E cb \in DOMAIN page_annotation : \E url \in FetchedUrls : CallbackOn(cb, url)

SpecRegistry == InitRegistry /\ [][NextRegistry]_vars

----------------------------------------------------------------------------
(* The database configuration read at start-up *)

\* every variable of the crawler and the pipelines before the process starts
IdleProcess ==
  /\ pc = "idle"
  /\ run = 0
  /\ opened = {}
  /\ closed = {}
  /\ storage = EmptyBag
  /\ has_table = TRUE
  /\ session_new = EmptyBag
  /\ num_items = 0
  /\ item_urls_seen = {}
  /\ num_url_queries = 0
  /\ storage_at_start = EmptyBag
  /\ offered = EmptyBag
  /\ handed = EmptyBag
  /\ dropped = EmptyBag
  /\ last = NoCall
  /\ commits = 0
  /\ close_log = <<>>
  /\ fed = 0
  /\ any_fed = 0
  /\ web = EmptyWeb
  /\ only_domain = None
  /\ requests = {}
  /\ issued = {}
  /\ handled = {}
  /\ invoked = {}
  /\ paginated_call = NoPaginatedCall
  /\ reg_status = "loaded"
  /\ loaded_modules = {"realo_be"}
  /\ overrides = RealoRegistry.overrides
  /\ start_url_dict = RealoRegistry.start_url_dict
  /\ reg_log = <<[module |-> "realo_be", by_name |-> FALSE, domain |-> RealoRegistry.domain,
                  triplet |-> RealoRegistry.overrides[RealoRegistry.domain]]>>
  /\ probe = NoProbe

InitConfig ==
  /\ IdleProcess
  /\ environ \in Environs
  /\ config_file \in ConfigFiles
  /\ raw_page = NoPage
  /\ text = <<>>
  /\ item_map = EmptyDict

\* get_db_config() is called in the environment and on the file at hand
GetDbConfig ==
  /\ probe = NoProbe
  /\ LET cfg == get_db_config(environ, config_file)
     IN probe' = [fn |-> "get_db_config", provider |-> cfg.provider, result |-> cfg.result]
  /\ UNCHANGED <<life_vars, pipe_vars, hist_vars, web, only_domain, requests, issued,
                 handled, invoked, paginated_call, reg_status, loaded_modules, overrides,
                 start_url_dict, reg_log, input_vars>>

NextConfig == GetDbConfig

SpecConfig == InitConfig /\ [][NextConfig]_vars

----------------------------------------------------------------------------
(* The extraction of a record from the response of a detail page *)

InitExtract ==
  /\ IdleProcess
  /\ environ = TestEnviron
  /\ config_file = NoConfigFile
  /\ raw_page \in RawPages
  /\ text = <<>>
  /\ item_map = EmptyDict

\* callback_for(RealEstatePage): the response is injected into the page
\* object and to_item is run on it; db_item is what PostgresPipeline's
\* from_dict makes of the record, row what it makes of the record in the
\* shape it reads
ToItem ==
  /\ probe = NoProbe
  /\ LET item == RealEstatePage_to_item(raw_page)
     IN probe' = [fn |-> "to_item", result |-> item,
                  db_item |-> IF item.raised THEN item ELSE from_dict(item.value),
                  row |-> IF item.raised THEN item
                          ELSE from_dict([k \in {"location", "listing_type", "area", "price",
                                                 "scrape_metadata", "heating_demand",
                                                 "energy_efficiency"} |->
                                            IF k \in {"heating_demand", "energy_efficiency"}
                                            THEN item.value.epc_data[k] ELSE item.value[k]])]
  /\ UNCHANGED <<life_vars, pipe_vars, hist_vars, web, only_domain, requests, issued,
                 handled, invoked, paginated_call, reg_status, loaded_modules, overrides,
                 start_url_dict, reg_log, input_vars>>

NextExtract == ToItem

SpecExtract == InitExtract /\ [][NextExtract]_vars

----------------------------------------------------------------------------
(* The format checker and the number extraction on a text node *)

InitFormat ==
  /\ IdleProcess
  /\ environ = TestEnviron
  /\ config_file = NoConfigFile
  /\ raw_page = NoPage
  /\ text \in TextNodes
  /\ item_map = EmptyDict

FormatProbed ==
  UNCHANGED <<life_vars, pipe_vars, hist_vars, web, only_domain, requests, issued,
              handled, invoked, paginated_call, reg_status, loaded_modules, overrides,
              start_url_dict, reg_log, input_vars>>

\* FormatChecker.extract_year(text)
ExtractYear ==
  /\ probe = NoProbe
  /\ probe' = [fn |-> "extract_year", result |-> extract_year(text)]
  /\ FormatProbed

\* a detail page reads the number of one of its fields from the text
ReadNumber(field) ==
  /\ probe = NoProbe
  /\ probe' = [fn |-> field, result |-> number_of(field, text)]
  /\ FormatProbed

NextFormat ==
  \/ ExtractYear
  \/ \E field \in NumberFields : ReadNumber(field)

SpecFormat == InitFormat /\ [][NextFormat]_vars

----------------------------------------------------------------------------
(* The item pipelines driven record by record *)

InitPipeline ==
  /\ pc = "idle"
  /\ run = 0
  /\ opened = {}
  /\ closed = {}
  /\ storage \in {TableOf(ds) : ds \in SUBSET Urls}
  /\ has_table = TRUE
  /\ session_new = EmptyBag
  /\ num_items = 0
  /\ item_urls_seen = {}
  /\ num_url_queries = 0
  /\ storage_at_start = EmptyBag
  /\ offered = EmptyBag
  /\ handed = EmptyBag
  /\ dropped = EmptyBag
  /\ last = NoCall
  /\ commits = 0
  /\ close_log = <<>>
  /\ fed = 0
  /\ any_fed = 0
  /\ web = EmptyWeb
  /\ only_domain = None
  /\ requests = {}
  /\ issued = {}
  /\ handled = {}
  /\ invoked = {}
  /\ paginated_call = NoPaginatedCall
  /\ reg_status = "loaded"
  /\ loaded_modules = {"realo_be"}
  /\ overrides = RealoRegistry.overrides
  /\ start_url_dict = RealoRegistry.start_url_dict
  /\ reg_log = <<[module |-> "realo_be", by_name |-> FALSE, domain |-> RealoRegistry.domain,
                  triplet |-> RealoRegistry.overrides[RealoRegistry.domain]]>>
  /\ probe = NoProbe
  /\ environ = TestEnviron
  /\ config_file = NoConfigFile
  /\ raw_page = NoPage
  /\ text = <<>>
  /\ item_map = EmptyDict

\* the pipelines are built without a crawl
Construct ==
  /\ ConstructPipelines
  /\ UNCHANGED spider_vars

\* a record in the shape to_item builds
FeedNested ==
  /\ any_fed < MaxAny
  /\ \E d \in Urls : ItemScraped(to_item(DetailPage(d), 0))
  /\ any_fed' = any_fed + 1
  /\ UNCHANGED <<fed, spider_vars>>

\* a record in the shape from_dict reads
FeedFlat ==
  /\ any_fed < MaxAny
  /\ \E d \in Urls : ItemScraped(FlatRealEstate(DetailPage(d), 0))
  /\ any_fed' = any_fed + 1
  /\ UNCHANGED <<fed, spider_vars>>

\* one more copy of the record of the first detail page, in the shape
\* from_dict reads: fills the batches of the first run
FeedBulk ==
  /\ run = 1
  /\ fed < MaxItems
  /\ ItemScraped(FlatRealEstate(DetailPage(1), 0))
  /\ fed' = fed + 1
  /\ UNCHANGED <<any_fed, spider_vars>>

NextPipeline ==
  \/ Construct
  \/ \E p \in Pipelines : open_spider(p)
  \/ FeedNested
  \/ FeedFlat
  \/ FeedBulk
  \/ PostgresPipeline_close_spider
  \/ DuplicatesPipeline_close_spider

SpecPipeline == InitPipeline /\ [][NextPipeline]_vars

----------------------------------------------------------------------------
(* The Habita list and detail callbacks in the course of a crawl *)

\* parse_pagination has yielded the requests for the result pages of the API
InitHabita ==
  /\ pc = "crawling"
  /\ run = 1
  /\ opened = Pipelines
  /\ closed = {}
  /\ storage = EmptyBag
  /\ has_table = TRUE
  /\ session_new = EmptyBag
  /\ num_items = 0
  /\ item_urls_seen = {}
  /\ num_url_queries = 0
  /\ storage_at_start = EmptyBag
  /\ offered = EmptyBag
  /\ handed = EmptyBag
  /\ dropped = EmptyBag
  /\ last = NoCall
  /\ commits = 0
  /\ close_log = <<>>
  /\ fed = 0
  /\ any_fed = 0
  /\ web \in HabitaApis
  /\ only_domain = None
  /\ requests = {Request("parse", HabitaResultsUrl(k), FALSE, "parse_pagination") :
                    k \in 1..NumApiPages}
  /\ issued = requests
  /\ handled = {}
  /\ invoked = {}
  /\ paginated_call = NoPaginatedCall
  /\ reg_status = "loaded"
  /\ loaded_modules = {"habita_com"}
  /\ overrides = register(EmptyDict, EmptyDict, "habita_com", FALSE).value.overrides
  /\ start_url_dict = register(EmptyDict, EmptyDict, "habita_com", FALSE).value.start_url_dict
  /\ reg_log = <<>>
  /\ probe = NoProbe
  /\ environ = TestEnviron
  /\ config_file = NoConfigFile
  /\ raw_page = NoPage
  /\ text = <<>>
  /\ item_map = EmptyDict

HabitaParsed ==
  UNCHANGED <<life_vars, pipe_vars, hist_vars, web, only_domain, invoked, paginated_call,
              reg_status, loaded_modules, overrides, start_url_dict, reg_log,
              environ, config_file, raw_page, text>>

\* the response to a result page reaches parse: real_estate_urls writes the
\* items into item_map and the detail requests are yielded
HabitaListParsed(r) ==
  /\ r \in requests /\ r.cb = "parse"
  /\ LET results == web.results[int_of_digits(r.url[2])]
     IN /\ item_map' = item_map_after(item_map, results)
        /\ Answered(r, {Request("RealEstatePage", HabitaItemUrl(d), FALSE, "parse") : d \in results})
  /\ UNCHANGED probe
  /\ HabitaParsed

\* the response to a detail request reaches the detail callback, whose
\* to_item reads the page's data
HabitaDetailParsed(r) ==
  /\ r \in requests /\ r.cb = "RealEstatePage"
  /\ probe' = [fn |-> "data", url |-> r.url, result |-> HabitaCom_data(item_map, r.url)]
  /\ Answered(r, {})
  /\ UNCHANGED item_map
  /\ HabitaParsed

NextHabita ==
  \/ \E r \in requests : HabitaListParsed(r)
  \/ \E r \in requests : HabitaDetailParsed(r)

SpecHabita == InitHabita /\ [][NextHabita]_vars

----------------------------------------------------------------------------
(* The committed rows under failures of the process *)

\* a database in which the table was never made, or is there and empty
InitStorage ==
  /\ pc = "idle"
  /\ run = 0
  /\ opened = {}
  /\ closed = {}
  /\ storage = EmptyBag
  /\ has_table \in BOOLEAN
  /\ session_new = EmptyBag
  /\ num_items = 0
  /\ item_urls_seen = {}
  /\ num_url_queries = 0
  /\ storage_at_start = EmptyBag
  /\ offered = EmptyBag
  /\ handed = EmptyBag
  /\ dropped = EmptyBag
  /\ last = NoCall
  /\ commits = 0
  /\ close_log = <<>>
  /\ fed = 0
  /\ any_fed = 0
  /\ web = EmptyWeb
  /\ only_domain = None
  /\ requests = {}
  /\ issued = {}
  /\ handled = {}
  /\ invoked = {}
  /\ paginated_call = NoPaginatedCall
  /\ reg_status = "loaded"
  /\ loaded_modules = {"realo_be"}
  /\ overrides = RealoRegistry.overrides
  /\ start_url_dict = RealoRegistry.start_url_dict
  /\ reg_log = <<[module |-> "realo_be", by_name |-> FALSE, domain |-> RealoRegistry.domain,
                  triplet |-> RealoRegistry.overrides[RealoRegistry.domain]]>>
  /\ probe = NoProbe
  /\ environ = TestEnviron
  /\ config_file = NoConfigFile
  /\ raw_page = NoPage
  /\ text = <<>>
  /\ item_map = EmptyDict

\* PostgresPipeline.process_item on one more copy of the bulk record, whose
\* threshold commit raises: the rows of the open transaction stay pending or
\* are rolled back
CommitFails ==
  /\ pc = "crawling" /\ opened = Pipelines
  /\ run = 1 /\ fed < MaxItems
  /\ (num_items + 1) % batch_size = 0
  /\ LET item == FlatRealEstate(DetailPage(1), 0)
         res == DuplicatesPipeline_process_item(item, item_urls_seen)
     IN /\ ~res.raised
        /\ offered' = offered (+) SetToBag({item})
        /\ handed' = handed (+) SetToBag({item})
        /\ last' = [item |-> item, outcome |-> "passed", result |-> res, added |-> TRUE]
        /\ session_new' \in {session_add(session_new, from_dict(item).value), EmptyBag}
  /\ num_items' = num_items + 1
  /\ fed' = fed + 1
  /\ UNCHANGED <<life_vars, storage, has_table, item_urls_seen, num_url_queries,
                 storage_at_start, dropped, commits, close_log, any_fed, spider_vars>>

\* the crawl is stopped from outside without the close_spider hooks: the
\* rows not yet committed go with the process
ForcedStop ==
  /\ pc = "crawling" /\ opened = Pipelines
  /\ pc' = "done"
  /\ session_new' = EmptyBag
  /\ UNCHANGED <<run, opened, closed, storage, has_table, num_items, item_urls_seen,
                 num_url_queries, hist_vars, spider_vars>>

NextStorage ==
  \/ Construct
  \/ \E p \in Pipelines : open_spider(p)
  \/ FeedNested
  \/ FeedBulk
  \/ CommitFails
  \/ ForcedStop
  \/ PostgresPipeline_close_spider
  \/ DuplicatesPipeline_close_spider

SpecStorage == InitStorage /\ [][NextStorage]_vars

----------------------------------------------------------------------------
(* Properties *)

UrlsCommittedBeforeRun == ScrapedUrls(storage_at_start)

\* number of records of a bag that carry the given URL
RecordsWithUrl(bag, url) ==
  SumCopies(bag, {item \in BagToSet(bag) : item.scrape_metadata.url = url})

C2_NoRecordLost ==
  pc = "done" =>
    \A item \in BagToSet(handed) :
      RowsWithUrl(storage, item.scrape_metadata.url)
        >= RecordsWithUrl(handed, item.scrape_metadata.url)

C4_DropIffCommittedBefore ==
  last.outcome # "none" =>
    /\ last.result.raised <=> last.item.scrape_metadata.url \in UrlsCommittedBeforeRun
    /\ ~last.result.raised => last.result.value = last.item

W_C4 ==
  /\ last.outcome = "dropped"
  /\ handed # EmptyBag
  /\ storage # storage_at_start

\* C5: item_urls_seen is loaded by one query when the pipeline is constructed,
\* holds the URLs committed before the run, and no hook of the running
\* pipelines (open_spider, process_item, close_spider) changes it.
C5_SeenReadOnly ==
  /\ [](pc # "idle" => num_url_queries = 1 /\ item_urls_seen = UrlsCommittedBeforeRun)
  /\ [][(pc \in {"crawling", "closing"}) => (item_urls_seen' = item_urls_seen)]_vars

W_C5 ==
  /\ pc = "done"
  /\ item_urls_seen # {}
  /\ handed # EmptyBag
  /\ dropped # EmptyBag

\* the site of the end-to-end scenario: the home page links to one list page,
\* which holds three detail links and no pagination; or, read at the level of
\* the result page, whose pagination announces one result page holding the
\* three detail links
EndToEndSite ==
  /\ web.lists = {1}
  /\ web.bad = 0
  /\ \/ web.total_results = None /\ web.det_list = 3
     \/ web.total_results = Some(ResultsText(0)) /\ web.det_page[1] = 3

\* C6: on that site a finished crawl against empty storage has committed exactly
\* 3 rows, and the re-run commits no further row.
C6_EndToEnd ==
  (pc = "done" /\ EndToEndSite /\ only_domain = None) =>
    /\ (run = 1 /\ storage_at_start = EmptyBag) => BagCardinality(storage) = 3
    /\ run = 2 => storage = storage_at_start

ListCallbacks == {"parse_pagination", "parse"}

RegisteredListAdapters ==
  {"RealoBeRealEstateListPage", "RealoEsRealEstateListPage",
   "GreenAcresGrRealEstateListPage", "GreenAcresEsRealEstateListPage",
   "HabitaComRealEstateListPage", "TospitimouGrRealEstateListPage"}

\* C8: for every registered list adapter, real_estate_list_urls_paginated on a
\* URL that carries the site's pagination marker returns the empty list.
C8_NoPaginationOfPaginated ==
  (/\ paginated_call.adapter \in RegisteredListAdapters
   /\ HasPaginationMarker(paginated_call.adapter, paginated_call.page.url))
    => paginated_call.result = Returned(<<>>)

C10_RunDuplicatesPass ==
  \A item \in BagToSet(offered) :
    item.scrape_metadata.url \notin UrlsCommittedBeforeRun =>
      /\ CopiesIn(item, dropped) = 0
      /\ CopiesIn(item, handed) = CopiesIn(item, offered)

W_C10 ==
  \E item \in BagToSet(offered) :
    /\ item.scrape_metadata.url \notin UrlsCommittedBeforeRun
    /\ RecordsWithUrl(handed, item.scrape_metadata.url) >= 2

----------------------------------------------------------------------------
(* Properties of the adapter registry and of the spider's use of it *)

\* the home adapter registered for the domain of a URL
HomeAdapterOf(url) == overrides[get_domain(url)]["RealEstateHomePage"]

\* C11: the fetches a callback issues for a page of a registered domain
\* (list-page fetches from parse_home_page, pagination fetches from
\* parse_pagination, detail fetches from parse) use the Selenium-or-plain
\* policy the home adapter of that domain declares.
C11_PolicyInherited ==
  (probe.fn \in DOMAIN page_annotation /\ get_domain(probe.url) \in DOMAIN overrides)
    => probe.result = Returned(should_use_selenium(HomeAdapterOf(probe.url)))

\* a detail fetch is issued with Selenium on a site whose home page asks for it,
\* while a site with the plain policy is registered too
W_C11 ==
  /\ probe.fn = "parse"
  /\ probe.result = Returned(TRUE)
  /\ \E d \in DOMAIN overrides : ~should_use_selenium(overrides[d]["RealEstateHomePage"])

\* the entry URLs start_requests has to fetch under only_domain = od
EntryUrls(od) ==
  UNION {SeqToSet(start_url_dict[cls]) :
           cls \in {c \in DOMAIN start_url_dict : od = None \/ domain(c) = od[1]}}

\* C12: start_requests issues one fetch, to parse_home_page, per entry URL
\* of every registered home adapter when only_domain is unset; when it is
\* set, exactly for the entry URLs of the adapter whose domain equals it, and
\* none when no registered domain equals it.
C12_EntryDispatch ==
  probe.fn = "start_requests" =>
    /\ {r.url : r \in probe.result} = EntryUrls(probe.only_domain)
    /\ Cardinality(probe.result) = Cardinality(EntryUrls(probe.only_domain))
    /\ \A r \in probe.result : r.cb = "parse_home_page"
    /\ (probe.only_domain # None
          /\ ~\E c \in DOMAIN start_url_dict : domain(c) = probe.only_domain[1])
         => probe.result = {}

\* only_domain names one of several registered sites and only its entry URLs
\* are fetched
W_C12 ==
  /\ probe.fn = "start_requests"
  /\ probe.only_domain = Some("realo.es")
  /\ Cardinality(probe.result) = num_city_pages
  /\ Cardinality(DOMAIN start_url_dict) >= 3

\* the concrete implementations of a role among the classes of a module
Implementations(m, by_name, role) ==
  {cls \in SeqToSet(getmembers(m, by_name)) : cls \notin AbstractClasses /\ issubclass(cls, role)}

\* C13: when a module of the package has no concrete implementation of one
\* of the three page roles, discovery raises on that module: the import of the
\* registry fails with ValueError and the loop never finishes, so nothing of
\* the process starts.
C13_FailsOnMissingRole ==
  \A m \in loaded_modules :
    (\E role \in AbstractClasses : Implementations(m, FALSE, role) = {})
      => /\ reg_status = "failed"
         /\ probe = [fn |-> "import", module |-> m, result |-> Raised("ValueError")]

\* discovery has registered other modules and fails on immowelt, which has no
\* home page
W_C13 ==
  /\ reg_status = "failed"
  /\ probe.module = "immowelt"
  /\ Len(reg_log) >= 2

\* C14 as claimed: a module with more than one concrete implementation of a
\* role is never registered, discovery fails on it.
C14_FailsOnSeveral ==
  \A i \in DOMAIN reg_log :
    \A role \in AbstractClasses :
      Cardinality(Implementations(reg_log[i].module, reg_log[i].by_name, role)) <= 1

\* the position of a class in the order of the names
ClassIndex(cls) == CHOOSE i \in DOMAIN ClassOrder : ClassOrder[i] = cls

\* C14: discovery does not fail on a module with several concrete
\* implementations of a role: it registers, for each role, the implementation
\* whose class name comes first; it fails only on a module that lacks a role.
C14_FirstByNameRegistered ==
  /\ \A i \in DOMAIN reg_log :
       \A role \in AbstractClasses :
         LET impls == Implementations(reg_log[i].module, reg_log[i].by_name, role)
         IN /\ reg_log[i].triplet[role] \in impls
            /\ \A c \in impls : ClassIndex(reg_log[i].triplet[role]) <= ClassIndex(c)
  /\ reg_status = "failed" =>
       \E role \in AbstractClasses : Implementations(probe.module, FALSE, role) = {}

\* realo_es with the classes of realo_be among its members was registered, with
\* the Belgian home page, and discovery has finished
W_C14 ==
  /\ reg_status = "loaded"
  /\ \E i \in DOMAIN reg_log :
       /\ reg_log[i].module = "realo_es"
       /\ Cardinality(Implementations("realo_es", reg_log[i].by_name, "RealEstateHomePage")) = 2
       /\ reg_log[i].triplet["RealEstateHomePage"] = "RealoBeRealEstateHomePage"

C16_UnmatchedIsFatal ==
  probe.fn \in DOMAIN page_annotation =>
    IF get_domain(probe.url) \in DOMAIN overrides
    THEN probe.page = overrides[get_domain(probe.url)][page_annotation[probe.fn]]
    ELSE probe.outcome = "fatal"

\* the configuration the environment holds, when its port is a number
EnvironConfig ==
  DBConfig(environ["POSTGRES_DB"], environ["POSTGRES_HOST"], int(environ["POSTGRES_PORT"]).value,
           environ["POSTGRES_USER"], environ["POSTGRES_PASSWORD"])

\* C17: with all five POSTGRES_* variables set get_db_config takes the
\* configuration from the environment, whether or not a config file exists;
\* with a variable missing and the config file there it takes it from the
\* file; with neither it raises ValueError.
C17_ConfigSource ==
  probe.fn = "get_db_config" =>
    IF env_vars_available(environ)
    THEN /\ probe.provider = Some("env")
         /\ ~int(environ["POSTGRES_PORT"]).raised => probe.result = Returned(EnvironConfig)
    ELSE IF config_file.config_path # None /\ config_file.exists
    THEN /\ probe.provider = Some("file")
         /\ (config_file.parsable /\ config_file.content = FullConfig)
              => probe.result = Returned(DBConfig("real_estate", "db", 5433, "scraper", "secret"))
    ELSE probe.result = Raised("ValueError")

\* the environment is complete, a complete config file exists too, and the
\* configuration returned is the one of the environment
W_C17 ==
  /\ probe.fn = "get_db_config"
  /\ environ = TestEnviron
  /\ config_file.exists /\ config_file.parsable /\ config_file.content = FullConfig
  /\ probe.result = Returned(DBConfig("test", "localhost", 5432, "test", "test"))

\* the fields of a record that models.py types as plain str, and whether the
\* node or key the page class reads one from is missing in the response
RequiredFieldMissing(p) ==
  \/ p.city = None
  \/ Family(p.adapter) # "green_acres" /\ p.zip = None
  \/ Family(p.adapter) \in {"realo", "immowelt", "immowelt_at", "immowelt_de"} /\ p.caption = None
  \/ Family(p.adapter) # "immowelt" /\ p.object_type = None

\* C18: a detail page on which the adapter cannot find a required field
\* (city, ZIP code, listing type, object type) produces no record: to_item
\* raises, nothing is handed to the pipelines.
C18_NoRecordWithoutRequired ==
  (probe.fn = "to_item" /\ RequiredFieldMissing(raw_page)) => probe.result.raised

\* the URLs parse_pagination yields requests for: the loop over the property
\* does not start when reading it raises
PaginationUrls(res) == IF res.raised THEN {} ELSE SeqToSet(res.value)

\* C19: on a list page whose result counter is missing or malformed the
\* pagination extraction gives no pagination URL: it raises (the callback
\* yields nothing, Scrapy logs the error and goes on) or returns the empty
\* list; no page count is guessed.
C19_NoGuessedPageCount ==
  (/\ paginated_call.adapter # "none"
   /\ \/ paginated_call.page.total_results = None
      \/ ~paginated_call.page.total_results[1].numeric)
    => PaginationUrls(paginated_call.result) = {}

\* the Green-Acres adapter raises on a malformed counter of an unpaginated
\* list page
W_C19 ==
  /\ paginated_call.adapter = "GreenAcresGrRealEstateListPage"
  /\ ~HasPaginationMarker(paginated_call.adapter, paginated_call.page.url)
  /\ paginated_call.page.total_results = Some(MalformedText)
  /\ paginated_call.result = Raised("ValueError")

\* C20: a record built by to_item that has a price has a non-empty price
\* unit, and a row made of it with a price_amount has a price_unit that is
\* neither NULL nor empty.
C20_PricedHasUnit ==
  (probe.fn = "to_item" /\ ~probe.result.raised) =>
    /\ probe.result.value.price # None => probe.result.value.price[1].unit # ""
    /\ (~probe.row.raised /\ probe.row.value.price_amount # None)
         => (probe.row.value.price_unit # None /\ probe.row.value.price_unit[1] # "")

\* a rented Habita flat with a price: the record and the row have the unit
W_C20 ==
  /\ probe.fn = "to_item"
  /\ raw_page.adapter = "HabitaComRealEstatePage"
  /\ ~probe.result.raised
  /\ probe.result.value.price = Some(Price(1000, "EUR/MONTH"))
  /\ ~probe.row.raised
  /\ probe.row.value.price_amount = Some(1000)
  /\ probe.row.value.price_unit = Some("EUR/MONTH")

\* C21: extract_year returns the first 4-digit year from 1700 to 2099 in
\* the string, and raises ValueError when the string has no digit.
C21_FirstYearInRange ==
  probe.fn = "extract_year" =>
    /\ (\A i \in DOMAIN text : ~IsDigit(text[i])) => probe.result = Raised("ValueError")
    /\ ~probe.result.raised =>
         /\ probe.result.value \in 1700..2099
         /\ probe.result = extract_year_in_range(text)

\* a text with one decimal separator sep between digits, and its value
IsDecimalWith(string, sep) ==
  /\ \A i \in DOMAIN string : IsDigit(string[i]) \/ string[i] = sep
  /\ Cardinality({i \in DOMAIN string : string[i] = sep}) = 1
  /\ Len(string) >= 3 /\ IsDigit(string[1]) /\ IsDigit(string[Len(string)])

DecimalValue(string) ==
  [neg |-> FALSE, num |-> int_of_digits(SelectSeq(string, IsDigit)),
   scale |-> Len(string) - (CHOOSE i \in DOMAIN string : ~IsDigit(string[i]))]

\* C22: the number read from a text that is a decimal number with '.' or
\* with ',' as its separator is that number, and a text that is no number
\* gives None, without an exception.
C22_NormalizedNumber ==
  probe.fn \in NumberFields =>
    /\ (IsDecimalWith(text, ".") \/ IsDecimalWith(text, ","))
         => probe.result = Returned(Some(DecimalValue(text)))
    /\ (\E i \in DOMAIN text : text[i] = "a") => probe.result = Returned(None)

\* the callback each scheduling function gives to the requests it yields
CallbackChain == {<<"start_requests", "parse_home_page">>,
                  <<"parse_home_page", "parse_pagination">>,
                  <<"parse_pagination", "parse">>,
                  <<"parse", "RealEstatePage">>}

EnergyPart(energy_data, key) == IF energy_data = None THEN None ELSE energy_data[1][key]

\* C24: from_dict succeeds on every record to_item produced, and the row has
\* the record's price amount and unit, heating demand class and value, energy
\* efficiency class and value and scrape URL, with None for an absent part.
C24_RecordToRow ==
  (probe.fn = "to_item" /\ ~probe.result.raised) =>
    LET item == probe.result.value
        db_item == probe.db_item
    IN /\ ~db_item.raised
       /\ db_item.value.price_amount = (IF item.price = None THEN None ELSE Some(item.price[1].amount))
       /\ db_item.value.price_unit = (IF item.price = None THEN None ELSE Some(item.price[1].unit))
       /\ db_item.value.heating_demand_energy_class
            = EnergyPart(item.epc_data.heating_demand, "energy_class")
       /\ db_item.value.heating_demand_value = EnergyPart(item.epc_data.heating_demand, "value")
       /\ db_item.value.energy_efficiency_energy_class
            = EnergyPart(item.epc_data.energy_efficiency, "energy_class")
       /\ db_item.value.energy_efficiency_value
            = EnergyPart(item.epc_data.energy_efficiency, "value")
       /\ db_item.value.scrape_metadata_url = item.scrape_metadata.url

\* C25: a record given to the pipelines is dropped as a duplicate or added to
\* the writer's session, one of the two and not both; a dropped record is
\* not handed to PostgresPipeline.process_item, a passed one is handed once.
C25_DroppedOrBuffered ==
  /\ last.outcome # "none" => ((last.outcome = "dropped") # last.added)
  /\ \A item \in BagToSet(offered) :
        CopiesIn(item, dropped) + CopiesIn(item, handed) = CopiesIn(item, offered)

\* the part of C25 on the order of the two pipelines alone
C25_FilterBeforeWriter ==
  /\ last.outcome = "dropped" => ~last.added
  /\ \A item \in BagToSet(offered) :
        CopiesIn(item, dropped) + CopiesIn(item, handed) = CopiesIn(item, offered)

\* C26: no step takes a committed row away: not a process_item that raises,
\* not a commit that raises, not a stop from outside, and not the making of
\* the DatabaseHandler of a later process on the table that exists.
C26_CommittedOnlyGrows ==
  [][\A row \in BagToSet(storage) : CopiesIn(row, storage') >= CopiesIn(row, storage)]_vars

\* the handler was made a second time on a table holding a committed batch,
\* and a process_item of the second process raised
W_C26 ==
  /\ run = 2
  /\ BagCardinality(storage) >= batch_size
  /\ last.outcome = "passed" /\ ~last.added

\* C27: after every call of PostgresPipeline.process_item, one that raised
\* included, the rows added to the session since the last commit are
\* num_items mod batch_size many, and fewer than batch_size.
C27_BatchAligned ==
  (pc = "crawling" /\ closed = {} /\ last.outcome = "passed") =>
    /\ BagCardinality(session_new) = num_items % batch_size
    /\ BagCardinality(session_new) < batch_size

\* C28: every home page class that has entry URLs in _start_url_dict is the
\* home page of the triplet registered under its domain, and each of its entry
\* URLs is looked up under that domain, so that it is parsed by the class that
\* declared it.
C28_RegistryConsistent ==
  \A cls \in DOMAIN start_url_dict :
    /\ domain(cls) \in DOMAIN overrides
    /\ overrides[domain(cls)]["RealEstateHomePage"] = cls
    /\ \A i \in DOMAIN start_url_dict[cls] :
         /\ get_domain(start_url_dict[cls][i]) \in DOMAIN overrides
         /\ overrides[get_domain(start_url_dict[cls][i])]["RealEstateHomePage"] = cls

\* discovery went through several modules, one of which registered again the
\* classes of the module it imports them from
W_C28 ==
  /\ reg_status = "loaded"
  /\ Cardinality(DOMAIN start_url_dict) >= 3
  /\ \E i \in DOMAIN reg_log : reg_log[i].by_name

\* C29: item_map holds the entry of every item whose detail request waits
\* for its response, and the data a detail page reads are those stored for the
\* item its URL was built from, in every order of the callbacks.
C29_ListToDetailCache ==
  /\ \A r \in requests : r.cb = "RealEstatePage" => int_of_digits(r.url[2]) \in DOMAIN item_map
  /\ probe.fn = "data" =>
       /\ ~probe.result.raised
       /\ probe.result.value = HabitaItemData(probe.url[2])

\* the same for the items whose id has six digits
C29_SixDigitIds ==
  /\ \A r \in requests : r.cb = "RealEstatePage" => int_of_digits(r.url[2]) \in DOMAIN item_map
  /\ (probe.fn = "data" /\ Len(probe.url[2]) = 6) =>
       /\ ~probe.result.raised
       /\ probe.result.value = HabitaItemData(probe.url[2])

\* C30: on a list page without the pagination marker whose counter reads N,
\* the Realo list adapter returns the URLs of the pages 1 to (N div 48) + 1,
\* in ascending order and each once; the pages have room for the N results
\* and page 1 is the first of them.
C30_PaginationCovers ==
  (/\ paginated_call.adapter \in {"RealoBeRealEstateListPage", "RealoEsRealEstateListPage"}
   /\ ~Contains(paginated_call.page.url, "?page=")
   /\ paginated_call.page.total_results # None
   /\ paginated_call.page.total_results[1].numeric)
    => LET N == paginated_call.page.total_results[1].number
           res == paginated_call.result
       IN /\ ~res.raised
          /\ Len(res.value) = (N \div 48) + 1
          /\ \A k \in DOMAIN res.value :
               res.value[k] = paginated_call.page.url \o <<"?page=", ToString(k)>>
          /\ \A j, k \in DOMAIN res.value : j # k => res.value[j] # res.value[k]
          /\ Len(res.value) * 48 >= N
          /\ Len(res.value) >= 1

\* a counter of twice 48 results: three pages, the last of them empty
W_C30 ==
  /\ paginated_call.adapter = "RealoBeRealEstateListPage"
  /\ paginated_call.page.url = ListUrl(1)
  /\ paginated_call.page.total_results = Some(ResultsText(96))
  /\ ~paginated_call.result.raised
  /\ Len(paginated_call.result.value) = 3

====
